---- MODULE Spec2Model ----
(***************************************************************************)
(* Model of the ticket-app front end: the multi-CSV converter              *)
(* (src/unnamed/part_005: parseReference, extractTicketData,               *)
(* processAllFiles, removeFile, clearFiles, downloadMergedCSV) and the     *)
(* export page (src/frontend/src/app/(authenticated)/export/page.tsx).     *)
(*                                                                         *)
(* Strings are TLA+ strings; a character is a string of length 1.          *)
(***************************************************************************)
EXTENDS Integers, Sequences, FiniteSets, TLC

\* Reference Resolver probe (part_005:676-682, 489-575): refPc .. refOut
VARIABLES refPc,          \* "idle" | "cell" | "parsed"
    refInput,       \* the REFERENCE: column handed to parseReference
    refOut,         \* [main, additional] returned by parseReference
    \* Document Parser probe (part_005:577-726)
    exPc,           \* "ready" | "done"
    csvContent,     \* text of the file handed to extractTicketData
    extracted,      \* result of extractTicketData
    \* converter page (part_005:259-271)
    selectedFiles,  \* sequence of files
    convertedData,  \* merged ledger, sequence of tickets
    voidTickets,    \* REPRINT VOID tickets
    processingStats,\* the statistics object
    runs,           \* the processAllFiles invocations in progress
    dom,            \* processBtn.disabled and the display of the result controls
    mergedCsv,      \* the rows the step just taken handed to downloadFile, if any
    reportContent,  \* the report lines the step just taken handed to downloadFile
    \* export page (export/page.tsx:31-35)
    exporting, result, error,
    exportPc,       \* position of handleExport: "idle" | "posting" | "downloading"
    attempts,       \* per export attempt, what the POST was answered with
    downloadRequests, \* the attempts for which GET /api/export/download/<id> was sent
    \* export pages open side by side and the export service they post to
    tabPc,          \* per page: "idle" | "posting" | "downloading"
    tabRange,       \* per page: the date range of its request
    building,       \* per page: the build of its request, "none" | "validating" | "assembling"
    \* batches page (batches/page.tsx:76) and the batch records of the service
    batches,        \* the page's copy of the batch records, by batch id
    server,         \* the records GET /upload/batches answers with
    settled,        \* the steps that have completed with results: <<batch id, step>>
    matchPosts,     \* the POST /match/batches/<id>/match requests sent
    processingBatch, \* the page's processingBatch, a batch id or NoBatch
    parseRequests,  \* the batches with a POST /batches/<id>/parse in flight
    \* AuthProvider (auth-context.tsx:28), the router and the admin layout
    authPc,         \* checkAuth: "mount" | "fetching" | "done"
    accessToken,    \* localStorage holds an access_token
    user,           \* the role of the provider's user, or NoUser
    loading,        \* the provider's loading flag
    pathname,       \* the route on screen
    navTarget,      \* the route of a router.push under way, or NoNav
    adminView,      \* what AdminLayout rendered: "unmounted" | "loading" | "null" | "content"
    adminEffect,    \* AdminLayout's effect: "none" | "due" | "idle" | "redirected"
    hookResult,     \* the outcome of the last renderHook(() => useAuth())
    tokenOrigin,    \* the access_token: "none", or stored by "login" or "register" since
                    \* the session check began, or "earlier"
    logoutPc,       \* logout: "idle" | "posting" | "resolved" | "rejected"
    \* upload page (upload/page.tsx:65)
    filePairs,      \* the pairs listed, each an xls and a pdf file or NoFile
    uploading,      \* the uploading flag
    uploadPc,       \* uploadFiles: "idle" | "posting" | "fetching"
    uploadRequests, \* the files of each POST /upload/pairs sent
    toastShown,     \* the toast shown last, or NoToast
    lastDrop,       \* the files of the drop just handled, <<>> after any other step
    dropCount       \* the drops handled

refVars  == <<refPc, refInput, refOut>>
exVars   == <<exPc, csvContent, extracted>>
convVars ==
    <<selectedFiles, convertedData, voidTickets, processingStats, runs, dom, mergedCsv,
      reportContent>>
expVars  == <<exporting, result, error, exportPc, attempts, downloadRequests>>
lockVars == <<tabPc, tabRange, building>>
batchVars == <<batches, server, settled, matchPosts, processingBatch, parseRequests>>
authVars ==
    <<authPc, accessToken, user, loading, pathname, navTarget, adminView, adminEffect,
      hookResult, tokenOrigin, logoutPc>>
uploadVars ==
    <<filePairs, uploading, uploadPc, uploadRequests, toastShown, lastDrop, dropCount>>
restVars == <<lockVars, batchVars, authVars, uploadVars>>
vars     == <<refVars, exVars, convVars, expVars, restVars>>

\* each part of the program leaves the state of the other parts alone
RefFrame  == UNCHANGED <<exVars, convVars, expVars, restVars>>
ExFrame   == UNCHANGED <<refVars, convVars, expVars, restVars>>
ConvFrame == UNCHANGED <<refVars, exVars, expVars, restVars>>
ExpFrame  == UNCHANGED <<refVars, exVars, convVars, restVars>>
BaseFrame == UNCHANGED <<refVars, exVars, convVars, expVars>>
LockFrame == BaseFrame /\ UNCHANGED <<batchVars, authVars, uploadVars>>
BatchFrame == BaseFrame /\ UNCHANGED <<lockVars, authVars, uploadVars>>
AuthFrame == BaseFrame /\ UNCHANGED <<lockVars, batchVars, uploadVars>>
UploadFrame == BaseFrame /\ UNCHANGED <<lockVars, batchVars, authVars>>

-----------------------------------------------------------------------------
(* Characters and the JavaScript string primitives the code uses.          *)

Ch(s, i) == SubSeq(s, i, i)

Digits == {"0", "1", "2", "3", "4", "5", "6", "7", "8", "9"}

\* \d of a JavaScript regular expression
IsDigit(c) == c \in Digits

\* \s of a JavaScript regular expression, also what String.trim removes
IsSpace(c) == c \in {" ", "\t", "\r", "\n"}

\* the characters the regular expression dot does not match
IsLineTerminator(c) == c \in {"\r", "\n"}

Tail1(s) == SubSeq(s, 2, Len(s))

\* number of characters of s from position i on (Run) or back (RunBack) that are
\* digits or whitespace
RECURSIVE digitRun(_, _)
digitRun(s, i) ==
    IF i <= Len(s) /\ IsDigit(Ch(s, i)) THEN 1 + digitRun(s, i + 1) ELSE 0

RECURSIVE spaceRun(_, _)
spaceRun(s, i) ==
    IF i <= Len(s) /\ IsSpace(Ch(s, i)) THEN 1 + spaceRun(s, i + 1) ELSE 0

RECURSIVE spaceRunBack(_, _)
spaceRunBack(s, i) ==
    IF i >= 1 /\ IsSpace(Ch(s, i)) THEN 1 + spaceRunBack(s, i - 1) ELSE 0

trimStart(s) == SubSeq(s, spaceRun(s, 1) + 1, Len(s))

trimEnd(s) == SubSeq(s, 1, Len(s) - spaceRunBack(s, Len(s)))

\* String.prototype.trim
trim(s) == trimEnd(trimStart(s))

startsWith(s, p) == Len(s) >= Len(p) /\ SubSeq(s, 1, Len(p)) = p

\* String.prototype.includes
includes(s, sub) ==
    \E i \in 1..(Len(s) - Len(sub) + 1) : SubSeq(s, i, i + Len(sub) - 1) = sub

\* String.prototype.indexOf, 0-based, -1 when absent
indexOf(s, sub) ==
    IF includes(s, sub)
    THEN (CHOOSE i \in 1..(Len(s) - Len(sub) + 1) :
            /\ SubSeq(s, i, i + Len(sub) - 1) = sub
            /\ \A k \in 1..(i - 1) : SubSeq(s, k, k + Len(sub) - 1) # sub) - 1
    ELSE -1

\* the dot of a regular expression matches every character of s
allDot(s) == \A i \in 1..Len(s) : ~IsLineTerminator(Ch(s, i))

NoMatch == [ok |-> FALSE, g1 |-> "", g2 |-> ""]

-----------------------------------------------------------------------------
(* Reference Resolver: parseReference, part_005:489-575.  Each pattern     *)
(* operator is the regular expression of the same name applied to ref; a   *)
(* greedy quantifier takes the longest run that still lets the rest match. *)

\* the largest member of a non-empty set of numbers
maxOf(S) == CHOOSE x \in S : \A y \in S : y <= x

\* the numbers of whitespace characters a greedy \s+ (least = 1) or \s* (least = 0)
\* at position k0 + 1 may take so that the rest of ref matches (.+)$ (some = TRUE)
\* or (.*)$ (some = FALSE)
spaceTakes(ref, k0, least, some) ==
    {k \in least..spaceRun(ref, k0 + 1) :
        /\ (some => k0 + k < Len(ref))
        /\ allDot(SubSeq(ref, k0 + k + 1, Len(ref)))}

\* the match with the whole reference as its first group
keyMatch_wholeAsKey(ref, P, k0, ks) ==
    IF startsWith(ref, P) /\ k0 > Len(P) /\ ks # {}
    THEN [ok |-> TRUE, g1 |-> ref, g2 |-> SubSeq(ref, k0 + maxOf(ks) + 1, Len(ref))]
    ELSE NoMatch

\* the match of /^(P\d+)\s+(.+)$/ when the key ends at k0 and \s+ may take ks
keyMatch(ref, P, k0, ks) ==
    IF startsWith(ref, P) /\ k0 > Len(P) /\ ks # {}
    THEN [ok |-> TRUE, g1 |-> SubSeq(ref, 1, k0),
          g2 |-> SubSeq(ref, k0 + maxOf(ks) + 1, Len(ref))]
    ELSE NoMatch

keyMatchAt(ref, P, k0) == keyMatch(ref, P, k0, spaceTakes(ref, k0, 1, TRUE))

\* /^(P\d+)\s+(.+)$/ for a literal prefix P: hashPattern (P = "#") and mmPattern (P = "MM")
keyThenText(ref, P) == keyMatchAt(ref, P, Len(P) + digitRun(ref, Len(P) + 1))

\* /^(#\d+)\s+(.+)$/
hashPattern(ref) == keyThenText(ref, "#")

\* the match of /^TOPPSMM(\d+)\s*(.*)$/ when the digits end at k0 and \s* may take ks
toppsMatchOf(ref, k0, ks) ==
    IF startsWith(ref, "TOPPSMM") /\ k0 > 7 /\ ks # {}
    THEN [ok |-> TRUE, g1 |-> SubSeq(ref, 8, k0),
          g2 |-> SubSeq(ref, k0 + maxOf(ks) + 1, Len(ref))]
    ELSE NoMatch

toppsMatchAt(ref, k0) == toppsMatchOf(ref, k0, spaceTakes(ref, k0, 0, FALSE))

\* /^TOPPSMM(\d+)\s*(.*)$/
toppsPattern(ref) == toppsMatchAt(ref, 7 + digitRun(ref, 8))

\* /^TOPPSMM(\d+)$/
simpleToppsMmPattern(ref) ==
    IF startsWith(ref, "TOPPSMM") /\ digitRun(ref, 8) >= 1 /\ 7 + digitRun(ref, 8) = Len(ref)
    THEN [ok |-> TRUE, g1 |-> SubSeq(ref, 8, Len(ref)), g2 |-> ""]
    ELSE NoMatch

\* /^(MM\d+)\s+(.+)$/
mmPattern(ref) == keyThenText(ref, "MM")

\* /^#\d+$/
simpleHashPattern(ref) ==
    startsWith(ref, "#") /\ digitRun(ref, 2) >= 1 /\ 1 + digitRun(ref, 2) = Len(ref)

\* /^MM\d+$/
simpleMmPattern(ref) ==
    startsWith(ref, "MM") /\ digitRun(ref, 3) >= 1 /\ 2 + digitRun(ref, 3) = Len(ref)

\* ref.split(/\s+/): the pieces between the whitespace runs, empty pieces included
RECURSIVE splitFrom(_, _, _, _)
splitFrom(s, i, cur, acc) ==
    IF i > Len(s) THEN Append(acc, cur)
    ELSE IF IsSpace(Ch(s, i))
         THEN splitFrom(s, i + spaceRun(s, i), "", Append(acc, cur))
         ELSE splitFrom(s, i + 1, cur \o Ch(s, i), acc)

splitSpaces(s) == splitFrom(s, 1, "", <<>>)

\* parts.join(' ')
RECURSIVE joinSpace(_)
joinSpace(parts) ==
    IF Len(parts) = 0 THEN ""
    ELSE IF Len(parts) = 1 THEN parts[1]
    ELSE parts[1] \o " " \o joinSpace(Tail(parts))

\* the fallback of parseReference on the parts of ref, part_005:555-574
fallbackOf_noShapeCheck(ref, parts) ==
    IF Len(parts) > 1
    THEN [main |-> parts[1], additional |-> joinSpace(Tail(parts))]
    ELSE [main |-> ref, additional |-> ""]

fallbackOf(ref, parts) ==
    IF Len(parts) > 1 /\ (simpleHashPattern(parts[1]) \/ simpleMmPattern(parts[1]))
    THEN [main |-> parts[1], additional |-> joinSpace(Tail(parts))]
    ELSE [main |-> ref, additional |-> ""]

fallbackReference(ref) == fallbackOf(ref, splitSpaces(ref))

\* the pattern rules with the vendor annotation left out of rules 2 and 3
firstMatch_noAnnotation(ref, hashMatch, toppsMatch, simpleToppsMmMatch, mmMatch) ==
    IF hashMatch.ok
    THEN [main |-> hashMatch.g1, additional |-> hashMatch.g2]
    ELSE IF toppsMatch.ok
    THEN [main |-> "MM" \o toppsMatch.g1, additional |-> toppsMatch.g2]
    ELSE IF simpleToppsMmMatch.ok
    THEN [main |-> "MM" \o simpleToppsMmMatch.g1, additional |-> ""]
    ELSE IF mmMatch.ok
    THEN [main |-> mmMatch.g1, additional |-> mmMatch.g2]
    ELSE IF simpleHashPattern(ref) \/ simpleMmPattern(ref)
    THEN [main |-> ref, additional |-> ""]
    ELSE fallbackReference(ref)

\* the pattern rules in their order, given the four matches the code computes,
\* part_005:496-574
firstMatch(ref, hashMatch, toppsMatch, simpleToppsMmMatch, mmMatch) ==
    IF hashMatch.ok
    THEN [main |-> hashMatch.g1, additional |-> hashMatch.g2]
    ELSE IF toppsMatch.ok
    THEN [main |-> "MM" \o toppsMatch.g1,
          additional |-> IF toppsMatch.g2 # "" THEN "TOPPS " \o toppsMatch.g2 ELSE "TOPPS"]
    ELSE IF simpleToppsMmMatch.ok
    THEN [main |-> "MM" \o simpleToppsMmMatch.g1, additional |-> "TOPPS"]
    ELSE IF mmMatch.ok
    THEN [main |-> mmMatch.g1, additional |-> mmMatch.g2]
    ELSE IF simpleHashPattern(ref)
    THEN [main |-> ref, additional |-> ""]
    ELSE IF simpleMmPattern(ref)
    THEN [main |-> ref, additional |-> ""]
    ELSE fallbackReference(ref)

\* parseReference after the trim, part_005:494-574
resolveReference(ref) ==
    firstMatch(ref, hashPattern(ref), toppsPattern(ref), simpleToppsMmPattern(ref),
               mmPattern(ref))

\* parseReference, part_005:489-575
parseReference(fullReference) ==
    IF fullReference = "" \/ trim(fullReference) = ""
    THEN [main |-> "", additional |-> ""]
    ELSE resolveReference(trim(fullReference))

-----------------------------------------------------------------------------
(* The reference column of a ticket header on its way to parseReference:   *)
(* parseCSVLine trims every column (part_005:739, 746) and the header loop *)
(* calls parseReference only for a non-empty column (part_005:676-682).    *)

MaxDigits == 2
MaxWords == 2

SampleDigits == {"0", "7"}

RECURSIVE DigitStrings(_)
DigitStrings(n) ==
    IF n = 0 THEN {""}
    ELSE DigitStrings(n - 1) \cup {d \o c : d \in DigitStrings(n - 1), c \in SampleDigits}

Numbers == DigitStrings(MaxDigits) \ {""}

RefPrefixes == {"#", "MM", "TOPPSMM"}

\* first token of a reference: a key with digits, a bare prefix, or another word
RefHeads ==
    {p \o d : p \in RefPrefixes, d \in Numbers}
        \cup RefPrefixes \cup {"", "JOB", "TOPPS7", "#7A", "MM7-1"}

RefSeps == {" ", "  ", "\r", "\t"}

RefWords == {"J#2", "7", "#7", "MM1"}

RECURSIVE RefTexts(_)
RefTexts(n) ==
    IF n = 0 THEN {""}
    ELSE IF n = 1 THEN RefWords
    ELSE RefTexts(n - 1) \cup {t \o s \o w : t \in RefTexts(n - 1), s \in RefSeps, w \in RefWords}

RefCells ==
    {h \o s \o t : h \in RefHeads, s \in RefSeps \cup {""}, t \in RefTexts(MaxWords) \cup {""}}

NoRef == [main |-> "", additional |-> ""]

RefInit ==
    /\ refPc = "idle"
    /\ refInput = ""
    /\ refOut = NoRef

\* parseCSVLine stores the trimmed column, part_005:739, 746
ReadReferenceColumn ==
    /\ refPc = "idle"
    /\ \E cell \in RefCells : refInput' = trim(cell)
    /\ refPc' = "cell"
    /\ refOut' = NoRef
    /\ RefFrame

\* col === 'REFERENCE:' && columns[j + 1], part_005:676-682
CallParseReference ==
    /\ refPc = "cell"
    /\ refInput # ""
    /\ refOut' = parseReference(refInput)
    /\ refPc' = "parsed"
    /\ UNCHANGED refInput
    /\ RefFrame

\* an empty column is falsy: parseReference is not called
SkipEmptyReference ==
    /\ refPc = "cell"
    /\ refInput = ""
    /\ refPc' = "idle"
    /\ UNCHANGED <<refInput, refOut>>
    /\ RefFrame

NextReferenceColumn ==
    /\ refPc = "parsed"
    /\ refPc' = "idle"
    /\ refInput' = ""
    /\ refOut' = NoRef
    /\ RefFrame

-----------------------------------------------------------------------------
(* Document Parser: extractTicketData and its helpers, part_005:577-778.   *)

\* the k-th smallest member of a set of positions
kth(S, k) == CHOOSE p \in S : Cardinality({q \in S : q < p}) = k - 1

\* the pieces of s between the separator positions seps
pieces(s, seps) ==
    [k \in 1..(Cardinality(seps) + 1) |->
        SubSeq(s, IF k = 1 THEN 1 ELSE kth(seps, k - 1) + 1,
                  IF k = Cardinality(seps) + 1 THEN Len(s) ELSE kth(seps, k) - 1)]

\* csvContent.split('\n')
splitLines(s) == pieces(s, {i \in 1..Len(s) : Ch(s, i) = "\n"})

\* the characters of a column: the quotes are dropped, part_005:736-737
RECURSIVE dropQuotes(_)
dropQuotes(s) ==
    IF Len(s) = 0 THEN ""
    ELSE (IF Ch(s, 1) = "\"" THEN "" ELSE Ch(s, 1)) \o dropQuotes(Tail1(s))

\* inQuotes when the scan reaches position i: an odd number of quotes came before
inQuotes(line, i) == Cardinality({q \in 1..(i - 1) : Ch(line, q) = "\""}) % 2 = 1

\* the raw columns: the line cut at the commas outside quotes, part_005:738-740
cutColumns(line) ==
    pieces(line, {i \in 1..Len(line) : Ch(line, i) = "," /\ ~inQuotes(line, i)})

\* parseCSVLine, part_005:728-748
parseCSVLine(line) ==
    [k \in DOMAIN cutColumns(line) |-> trim(dropQuotes(cutColumns(line)[k]))]

\* columns[j] with the 0-based index of the code; a missing column is falsy
col(columns, j) == IF j + 1 \in DOMAIN columns THEN columns[j + 1] ELSE ""

LowerCase == "abcdefghijklmnopqrstuvwxyz"
UpperCase == "ABCDEFGHIJKLMNOPQRSTUVWXYZ"

\* toUpperCase of one character
upperChar(c) ==
    IF indexOf(LowerCase, c) >= 0 THEN Ch(UpperCase, indexOf(LowerCase, c) + 1) ELSE c

\* String.prototype.toUpperCase, character by character
RECURSIVE toUpperCase(_)
toUpperCase(s) ==
    IF Len(s) = 0 THEN ""
    ELSE IF Len(s) = 1 THEN upperChar(s)
    ELSE toUpperCase(SubSeq(s, 1, Len(s) \div 2))
            \o toUpperCase(SubSeq(s, Len(s) \div 2 + 1, Len(s)))

digitValue(c) == indexOf("0123456789", c)

RECURSIVE decimalValue(_)
decimalValue(s) ==
    IF Len(s) = 0 THEN 0
    ELSE 10 * decimalValue(SubSeq(s, 1, Len(s) - 1)) + digitValue(Ch(s, Len(s)))

\* parseInt(s) || 0 for decimal text: leading whitespace, a sign, the digit run;
\* NaN (no digit) and 0 both give 0
parseIntOr0(s) ==
    LET t    == trimStart(s)
        neg  == startsWith(t, "-")
        body == IF startsWith(t, "-") \/ startsWith(t, "+") THEN Tail1(t) ELSE t
        d    == digitRun(body, 1)
        v    == decimalValue(SubSeq(body, 1, d))
    IN  IF d = 0 THEN 0 ELSE IF neg THEN 0 - v ELSE v

\* weightStr.replace(/[^0-9.]/g, '')
RECURSIVE keepNumeric(_)
keepNumeric(s) ==
    IF Len(s) = 0 THEN ""
    ELSE (IF IsDigit(Ch(s, 1)) \/ Ch(s, 1) = "." THEN Ch(s, 1) ELSE "")
            \o keepNumeric(Tail1(s))

\* parseWeight for a string argument, part_005:772-778
parseWeight(weightStr) == parseIntOr0(keepNumeric(weightStr))

\* !isNaN(parseFloat(s)): after whitespace and a sign, a digit or a dot and a digit
isNumeric(s) ==
    LET t    == trimStart(s)
        body == IF startsWith(t, "-") \/ startsWith(t, "+") THEN Tail1(t) ELSE t
    IN  \/ digitRun(body, 1) >= 1
        \/ (startsWith(body, ".") /\ digitRun(body, 2) >= 1)
        \/ startsWith(body, "Infinity")

\* one iteration of the status loop sets REPRINT VOID, part_005:632-653
columnSaysVoid(columns, j) ==
    LET c       == col(columns, j)
        nextCol == col(columns, j + 1)
    IN  \/ (c = "REPRINT" /\ includes(nextCol, "VOID"))
        \/ (c = "REPRINT VOID" \/ includes(c, "VOID"))
        \/ (nextCol = "VOID" /\ c = "REPRINT")
        \/ (includes(c, "VOID")
              /\ (includes(c, "REPRINT") \/ (j > 0 /\ col(columns, j - 1) = "REPRINT")))

\* the line as a whole has VOID after REPRINT, part_005:655-664
lineSaysVoid(line) ==
    LET lineText == toUpperCase(line)
    IN  /\ includes(lineText, "REPRINT")
        /\ includes(lineText, "VOID")
        /\ indexOf(lineText, "VOID") > indexOf(lineText, "REPRINT")

\* currentReprintStatus of a header line, part_005:629-664
headerStatus(line, columns) ==
    IF (\E j \in 0..(Len(columns) - 1) : columnSaysVoid(columns, j)) \/ lineSaysVoid(line)
    THEN "REPRINT VOID"
    ELSE "REPRINT"

NoTicket == [none |-> TRUE]

\* the ticket started at a header; hdr is not a field of the code: it records the
\* header line the ticket came from so that properties can refer to it
newTicket(line, columns) ==
    [TicketNumber |-> parseIntOr0(col(columns, 1)),
     Reference |-> "", Note |-> "",
     Gross |-> 0, Tare |-> 0, Net |-> 0,
     Material |-> "",
     hdr |-> line]

\* currentTicket['Reference'] and ['Note'] from the parsed reference, part_005:677-682
withReference(ticket, parsedRef) ==
    [ticket EXCEPT !.Reference = parsedRef.main,
                   !.Note = IF parsedRef.additional # "" THEN parsedRef.additional ELSE @]

\* one iteration of the field loop: column c and the column nx after it
headerField(ticket, c, nx) ==
    IF c = "REFERENCE:" /\ nx # "" THEN withReference(ticket, parseReference(nx))
    ELSE IF c = "GROSS" /\ nx # "" THEN [ticket EXCEPT !.Gross = parseWeight(nx)]
    ELSE IF c = "TARE" /\ nx # "" THEN [ticket EXCEPT !.Tare = parseWeight(nx)]
    ELSE IF c = "NET" /\ nx # "" THEN [ticket EXCEPT !.Net = parseWeight(nx)]
    ELSE ticket

\* the field loop over the header columns, part_005:667-696 (attendant, vehicle,
\* license and the dates are copied the same way and are left out)
RECURSIVE headerFields(_, _, _)
headerFields(columns, j, ticket) ==
    IF j >= Len(columns) THEN ticket
    ELSE headerFields(columns, j + 1,
                      headerField(ticket, col(columns, j), col(columns, j + 1)))

\* the accumulator of the scan: the locals of extractTicketData, part_005:579-585
startScan ==
    [currentTicket |-> NoTicket, currentReprintStatus |-> "null",
     reprintTickets |-> <<>>, voidTickets |-> <<>>, skippedTickets |-> <<>>,
     lineNumber |-> 0]

\* {...currentTicket, fileName, lineNumber}, part_005:601-605
withSource(t, fileName, atLine) ==
    [TicketNumber |-> t.TicketNumber, Reference |-> t.Reference, Note |-> t.Note,
     Gross |-> t.Gross, Tare |-> t.Tare, Net |-> t.Net, Material |-> t.Material,
     hdr |-> t.hdr, fileName |-> fileName, lineNumber |-> atLine]

\* fileTicket with the status test loosened to any status that starts with
\* REPRINT: a REPRINT VOID ticket lands in reprintTickets
fileTicket_voidAsReprint(acc, fileName, atLine) ==
    IF acc.currentTicket # NoTicket /\ acc.currentReprintStatus # "null"
    THEN IF startsWith(acc.currentReprintStatus, "REPRINT")
         THEN [acc EXCEPT !.reprintTickets = Append(@, acc.currentTicket)]
         ELSE [acc EXCEPT !.skippedTickets = Append(@, acc.currentTicket)]
    ELSE acc

\* file the open ticket under its status, part_005:596-609 and 706-718
fileTicket(acc, fileName, atLine) ==
    IF acc.currentTicket # NoTicket /\ acc.currentReprintStatus # "null"
    THEN IF acc.currentReprintStatus = "REPRINT"
         THEN [acc EXCEPT !.reprintTickets = Append(@, acc.currentTicket)]
         ELSE IF acc.currentReprintStatus = "REPRINT VOID"
         THEN [acc EXCEPT !.voidTickets =
                  Append(@, withSource(acc.currentTicket, fileName, atLine))]
         ELSE [acc EXCEPT !.skippedTickets = Append(@, acc.currentTicket)]
    ELSE acc

\* headerLine without the reset of currentReprintStatus at part_005:630: once a
\* block was void, the blocks after it stay void
headerLine_stickyVoid(acc, line, columns, fileName) ==
    [fileTicket(acc, fileName, acc.lineNumber - 1) EXCEPT
        !.currentTicket = headerFields(columns, 0, newTicket(line, columns)),
        !.currentReprintStatus = IF acc.currentReprintStatus = "REPRINT VOID"
                                 THEN "REPRINT VOID"
                                 ELSE headerStatus(line, columns)]

\* a ticket header line: file the previous ticket, start the next, part_005:595-696
headerLine(acc, line, columns, fileName) ==
    [fileTicket(acc, fileName, acc.lineNumber - 1) EXCEPT
        !.currentTicket = headerFields(columns, 0, newTicket(line, columns)),
        !.currentReprintStatus = headerStatus(line, columns)]

\* a line starting with a number may carry the material, part_005:697-702
materialLine(acc, columns) ==
    IF includes(col(columns, 2), "DEMO") \/ includes(col(columns, 2), "CONST")
    THEN [acc EXCEPT !.currentTicket.Material = col(columns, 2)]
    ELSE acc

\* the body of the loop for a non-empty trimmed line and its columns, part_005:592-702
scanColumns(acc, line, columns, fileName) ==
    IF col(columns, 0) = "TICKET #" /\ col(columns, 1) # ""
    THEN headerLine(acc, line, columns, fileName)
    ELSE IF acc.currentTicket # NoTicket /\ col(columns, 0) # ""
            /\ isNumeric(col(columns, 0))
    THEN materialLine(acc, columns)
    ELSE acc

\* lineNumber++, the trim and the test for an empty line, part_005:588-590
scanTrimmed(acc, line, fileName) ==
    IF line = "" THEN acc ELSE scanColumns(acc, line, parseCSVLine(line), fileName)

\* one iteration of the loop over the lines, part_005:587-703
scanLine(acc, rawLine, fileName) ==
    scanTrimmed([acc EXCEPT !.lineNumber = @ + 1], trim(rawLine), fileName)

RECURSIVE scanLines(_, _, _)
scanLines(acc, lines, fileName) ==
    IF Len(lines) = 0 THEN acc
    ELSE scanLines(scanLine(acc, Head(lines), fileName), Tail(lines), fileName)

\* the object returned, part_005:720-725
extractionResult(acc) ==
    [reprintTickets |-> acc.reprintTickets,
     voidTickets |-> acc.voidTickets,
     skippedTickets |-> acc.skippedTickets,
     totalFound |-> Len(acc.reprintTickets) + Len(acc.voidTickets)
                        + Len(acc.skippedTickets)]

\* the last ticket is filed after the loop, part_005:705-718
finishScan(acc, fileName) == extractionResult(fileTicket(acc, fileName, acc.lineNumber))

\* extractTicketData, part_005:577-726
extractTicketData(content, fileName) ==
    finishScan(scanLines(startScan, splitLines(content), fileName), fileName)

-----------------------------------------------------------------------------
(* Files.  A file is the text FileReader hands over: lines joined by "\n". *)

MaxLines == 3

\* header lines of the invoice format and the rows found between them
SampleLines ==
    {"TICKET #,1,REPRINT,NET,50",
     "TICKET #,2,REPRINT,VOID",
     "TICKET #,3,REPRINT VOID,NET,9",
     "TICKET #,4,NET,40",
     "TICKET #,5,VOID,NET,30",
     "TICKET #,6,ORIGINAL",
     "7,x,VOID DEMO",
     ""}

RECURSIVE Texts(_, _)
Texts(lineSet, n) ==
    IF n = 1 THEN lineSet
    ELSE Texts(lineSet, n - 1)
            \cup {t \o "\n" \o l : t \in Texts(lineSet, n - 1), l \in lineSet}

\* files with a block whose ticket number is not a number
MalformedContents ==
    {"TICKET #,x7,REPRINT,NET,20",
     "TICKET #,x7,REPRINT,NET,20\nTICKET #,1,REPRINT,NET,50",
     "TICKET #,1,REPRINT,NET,50\nTICKET #,x7,ORIGINAL\n7,x,DEMO"}

ProbeContents == Texts(SampleLines, MaxLines) \cup MalformedContents

NoExtract ==
    [reprintTickets |-> <<>>, voidTickets |-> <<>>, skippedTickets |-> <<>>,
     totalFound |-> 0]

ExInit ==
    /\ exPc = "ready"
    /\ csvContent \in ProbeContents
    /\ extracted = NoExtract

\* const extractedData = extractTicketData(fileData, file.name), part_005:419
ExtractFile ==
    /\ exPc = "ready"
    /\ extracted' = extractTicketData(csvContent, "a.csv")
    /\ exPc' = "done"
    /\ UNCHANGED csvContent
    /\ ExFrame

-----------------------------------------------------------------------------
(* The converter page, part_005:259-471 and 780-867.                       *)

MaxFiles == 2
MaxRuns == 1

\* the files the user can pick: one with a REPRINT and a REPRINT VOID block, one
\* with a single REPRINT VOID block, and one with a header that carries no status
\* tag, a material row and a REPRINT block
ConvFiles ==
    {[name |-> "a.csv", content |-> "TICKET #,1,REPRINT,NET,50\nTICKET #,2,REPRINT,VOID"],
     [name |-> "b.csv", content |-> "TICKET #,3,REPRINT VOID,NET,9"],
     [name |-> "c.csv", content |-> "TICKET #,4,NET,40\n7,x,DEMO\nTICKET #,1,REPRINT,NET,n/a"]}

\* the non-empty file lists one selection or drop can deliver
RECURSIVE FileLists(_)
FileLists(n) ==
    IF n <= 0 THEN {}
    ELSE IF n = 1 THEN {<<f>> : f \in ConvFiles}
    ELSE FileLists(n - 1) \cup {Append(l, f) : l \in FileLists(n - 1), f \in ConvFiles}

\* processingStats as declared, part_005:262-271.  counts tells what the fields
\* reprintTickets, voidTickets and skippedTickets hold: "number", or "undefined"
\* after clearFiles left them out, or "NaN" once += was applied to undefined;
\* their numeric value is kept at 0 while they are no number.
freshStats(n) ==
    [totalFiles |-> n, processedFiles |-> 0, errorFiles |-> 0, totalTickets |-> 0,
     reprintTickets |-> 0, voidTickets |-> 0, skippedTickets |-> 0,
     counts |-> "number", fileDetails |-> <<>>]

\* x += n for one of the three counters
plusEq(stats, x, n) == IF stats.counts = "number" THEN x + n ELSE 0

\* a processAllFiles invocation is suspended at one of its two awaits: "reading"
\* (await processFile(file), part_005:418) or "sleeping" (the 100 ms delay,
\* part_005:464); i is the loop index and file the element read at part_005:413
NoRun == [phase |-> "none"]

ConvInit ==
    /\ selectedFiles = <<>>
    /\ convertedData = <<>>
    /\ voidTickets = <<>>
    /\ processingStats = freshStats(0)
    /\ runs = [r \in 1..MaxRuns |-> NoRun]
    /\ dom = [processBtnDisabled |-> FALSE, fileListSection |-> FALSE,
              resultsSection |-> FALSE, downloadBtn |-> FALSE]
    /\ mergedCsv = <<>>
    /\ reportContent = <<>>

\* updateFileList, part_005:311-345: what it leaves in the state is processBtn.disabled
updateFileList(d, files) == [d EXCEPT !.processBtnDisabled = (Len(files) = 0)]

\* resetResults, part_005:383-386
resetResults(d) == [d EXCEPT !.resultsSection = FALSE]

\* addFiles, part_005:305-309 (from handleFileUpload or the drop handler)
addFiles(files) ==
    /\ Len(selectedFiles) + Len(files) <= MaxFiles
    /\ selectedFiles' = selectedFiles \o files
    /\ dom' = [updateFileList(dom, selectedFiles \o files) EXCEPT !.fileListSection = TRUE]
    /\ mergedCsv' = <<>>
    /\ reportContent' = <<>>
    /\ UNCHANGED <<convertedData, voidTickets, processingStats, runs>>

AddFiles ==
    /\ \E files \in FileLists(MaxFiles) : addFiles(files)
    /\ ConvFrame

\* array.splice(index, 1) with the 0-based index of the code
splice(seq, index) ==
    [k \in 1..(Len(seq) - 1) |-> IF k <= index THEN seq[k] ELSE seq[k + 1]]

\* removeFile, part_005:347-367
removeFile(index) ==
    LET files   == splice(selectedFiles, index)
        details == processingStats.fileDetails
        removed == index + 1 \in DOMAIN details
        stats1  == IF ~removed THEN processingStats
                   ELSE LET f == details[index + 1]
                            s == [processingStats EXCEPT !.fileDetails = splice(details, index)]
                        IN  IF f.status = "processed"
                            THEN [s EXCEPT !.processedFiles = @ - 1,
                                           !.totalTickets = @ - f.ticketCount]
                            ELSE IF f.status = "error"
                            THEN [s EXCEPT !.errorFiles = @ - 1]
                            ELSE s
        d1      == updateFileList(dom, files)
    IN  /\ dom.fileListSection
        /\ selectedFiles' = files
        /\ processingStats' = stats1
        /\ dom' = IF Len(files) = 0
                  THEN resetResults([d1 EXCEPT !.fileListSection = FALSE])
                  ELSE d1
        /\ mergedCsv' = <<>>
        /\ reportContent' = <<>>
        /\ UNCHANGED <<convertedData, voidTickets, runs>>

RemoveFile ==
    /\ \E index \in 0..(Len(selectedFiles) - 1) : removeFile(index)
    /\ ConvFrame

\* clearFiles, part_005:369-381
clearFiles ==
    /\ dom.fileListSection
    /\ selectedFiles' = <<>>
    /\ processingStats' = [freshStats(0) EXCEPT !.counts = "undefined"]
    /\ convertedData' = <<>>
    /\ dom' = resetResults([dom EXCEPT !.fileListSection = FALSE])
    /\ mergedCsv' = <<>>
    /\ reportContent' = <<>>
    /\ UNCHANGED <<voidTickets, runs>>
    /\ ConvFrame

\* the head of one loop iteration, part_005:412-418: either the next file is read
\* or the loop is over, the button is enabled again and displayMergedResults
\* (part_005:467-470, 790-844) shows the results
enterIteration(r, i, d, data) ==
    IF i < Len(selectedFiles)
    THEN /\ runs' = [runs EXCEPT ![r] = [phase |-> "reading", i |-> i,
                                         file |-> selectedFiles[i + 1]]]
         /\ dom' = d
    ELSE /\ runs' = [runs EXCEPT ![r] = NoRun]
         /\ dom' = [d EXCEPT !.processBtnDisabled = FALSE,
                             !.resultsSection = TRUE,
                             !.downloadBtn = @ \/ Len(data) > 0]

\* processAllFiles up to its first await, part_005:388-418
processAllFiles(r) ==
    /\ dom.fileListSection
    /\ ~dom.processBtnDisabled
    /\ runs[r] = NoRun
    /\ \A q \in 1..(r - 1) : runs[q] # NoRun
    /\ processingStats' = freshStats(Len(selectedFiles))
    /\ convertedData' = <<>>
    /\ voidTickets' = <<>>
    /\ enterIteration(r, 0, [dom EXCEPT !.processBtnDisabled = TRUE], <<>>)
    /\ mergedCsv' = <<>>
    /\ reportContent' = <<>>
    /\ UNCHANGED selectedFiles

ProcessAllFiles ==
    /\ \E r \in 1..MaxRuns : processAllFiles(r)
    /\ ConvFrame

\* the try block once extractTicketData has returned, part_005:421-443
mergeExtraction(file, extractedData, stats) ==
    /\ convertedData' = convertedData \o extractedData.reprintTickets
    /\ voidTickets' = voidTickets \o extractedData.voidTickets
    /\ processingStats' =
          [stats EXCEPT
             !.fileDetails = Append(@,
                 [name |-> file.name, status |-> "processed",
                  ticketCount |-> extractedData.totalFound,
                  reprintCount |-> Len(extractedData.reprintTickets),
                  voidCount |-> Len(extractedData.voidTickets),
                  skippedCount |-> Len(extractedData.skippedTickets)]),
             !.processedFiles = @ + 1,
             !.totalTickets = @ + extractedData.totalFound,
             !.reprintTickets = plusEq(stats, @, Len(extractedData.reprintTickets)),
             !.voidTickets = plusEq(stats, @, Len(extractedData.voidTickets)),
             !.skippedTickets = plusEq(stats, @, Len(extractedData.skippedTickets)),
             !.counts = IF @ = "number" THEN "number" ELSE "NaN"]

\* the file was read and parsed: the try block, part_005:418-443
fileProcessed(file) ==
    mergeExtraction(file, extractTicketData(file.content, file.name), processingStats)

\* processFile rejected (reader.onerror): the catch block, part_005:445-458
fileFailed(file) ==
    /\ processingStats' =
          [processingStats EXCEPT
             !.fileDetails = Append(@,
                 [name |-> file.name, status |-> "error", ticketCount |-> 0,
                  reprintCount |-> 0, voidCount |-> 0, skippedCount |-> 0]),
             !.errorFiles = @ + 1]
    /\ UNCHANGED <<convertedData, voidTickets>>

\* the read of processFile settles and the iteration runs to the delay,
\* part_005:418-464
FileRead ==
    /\ \E r \in 1..MaxRuns, ok \in BOOLEAN :
            /\ runs[r].phase = "reading"
            /\ IF ok THEN fileProcessed(runs[r].file) ELSE fileFailed(runs[r].file)
            /\ runs' = [runs EXCEPT ![r].phase = "sleeping"]
            /\ dom' = updateFileList(dom, selectedFiles)
            /\ mergedCsv' = <<>>
            /\ reportContent' = <<>>
            /\ UNCHANGED selectedFiles
    /\ ConvFrame

\* the delay is over: i++ and the next loop test, part_005:412, 464
NextIteration ==
    /\ \E r \in 1..MaxRuns :
            /\ runs[r].phase = "sleeping"
            /\ enterIteration(r, runs[r].i + 1, dom, convertedData)
            /\ mergedCsv' = <<>>
            /\ reportContent' = <<>>
            /\ UNCHANGED <<selectedFiles, convertedData, voidTickets, processingStats>>
    /\ ConvFrame

\* ticket[header] || '' as written to the CSV text, part_005:855-856
cell(value) == IF value = 0 THEN "" ELSE ToString(value)

csvRow(ticket) ==
    [TicketNumber |-> cell(ticket.TicketNumber),
     Reference |-> ticket.Reference, Note |-> ticket.Note,
     Gross |-> cell(ticket.Gross), Tare |-> cell(ticket.Tare), Net |-> cell(ticket.Net),
     Material |-> ticket.Material, hdr |-> ticket.hdr]

\* downloadMergedCSV, part_005:846-867; the button is usable once displayMergedResults
\* has shown it and while the results section is displayed
downloadMergedCSV ==
    /\ dom.resultsSection
    /\ dom.downloadBtn
    /\ mergedCsv' = IF Len(convertedData) = 0 THEN <<>>
                    ELSE [k \in 1..Len(convertedData) |-> csvRow(convertedData[k])]
    /\ reportContent' = <<>>
    /\ UNCHANGED <<selectedFiles, convertedData, voidTickets, processingStats, runs, dom>>
    /\ ConvFrame

\* downloadDetailedReport, part_005:869-906: the summary, a line per file and an
\* entry per REPRINT VOID ticket; the button is shown with the download button
\* (part_005:842-843)
downloadDetailedReport ==
    /\ dom.resultsSection
    /\ dom.downloadBtn
    /\ reportContent' =
          <<[kind |-> "summary",
             totalFiles |-> processingStats.totalFiles,
             processedFiles |-> processingStats.processedFiles,
             errorFiles |-> processingStats.errorFiles,
             totalTickets |-> processingStats.totalTickets,
             reprintTickets |-> processingStats.reprintTickets,
             voidTickets |-> processingStats.voidTickets,
             skippedTickets |-> processingStats.skippedTickets,
             counts |-> processingStats.counts]>>
          \o [k \in DOMAIN processingStats.fileDetails |->
                 [kind |-> "file", detail |-> processingStats.fileDetails[k]]]
          \o [k \in DOMAIN voidTickets |->
                 [kind |-> "void", TicketNumber |-> voidTickets[k].TicketNumber,
                  fileName |-> voidTickets[k].fileName,
                  lineNumber |-> voidTickets[k].lineNumber,
                  Reference |-> voidTickets[k].Reference]]
    /\ mergedCsv' = <<>>
    /\ UNCHANGED <<selectedFiles, convertedData, voidTickets, processingStats, runs, dom>>
    /\ ConvFrame

-----------------------------------------------------------------------------
(* The export page: handleExport, export/page.tsx:30-74, and what the page *)
(* renders from result and error, export/page.tsx:126-130, 201-269.        *)

MaxAttempts == 2

NoResult == [none |-> TRUE]

\* the bodies POST /api/export/invoices-bundle can answer with (ExportResult,
\* export/page.tsx:12-28)
Responses ==
    [success : BOOLEAN, export_id : {"", "e1"},
     validation_errors : {<<>>, <<"duplicate ticket 7">>},
     error_message : {"", "no tickets"}]

\* err.response?.data?.detail of a rejected request; "" when there is none
Details == {"", "Invalid date range"}

ExpInit ==
    /\ exporting = FALSE
    /\ result = NoResult
    /\ error = ""
    /\ exportPc = "idle"
    /\ attempts = <<>>
    /\ downloadRequests = {}

\* the form is submitted: the submit button and the inputs are disabled while
\* exporting (export/page.tsx:108, 121, 133); handleExport runs to the await of the
\* POST, export/page.tsx:37-50
handleExport ==
    /\ ~exporting
    /\ exportPc = "idle"
    /\ Len(attempts) < MaxAttempts
    /\ error' = ""
    /\ result' = NoResult
    /\ exporting' = TRUE
    /\ attempts' = Append(attempts, [kind |-> "pending"])
    /\ exportPc' = "posting"
    /\ UNCHANGED downloadRequests
    /\ ExpFrame

\* the test of export/page.tsx:55 with the success flag left out
downloadable_idOnly(data) == data.export_id # ""

\* response.data.success && response.data.export_id, export/page.tsx:55
downloadable(data) == data.success /\ data.export_id # ""

\* the POST resolves, export/page.tsx:52-58 (and 71-73 when nothing is downloaded)
postResolved(data) ==
    /\ exportPc = "posting"
    /\ result' = data
    /\ attempts' = [attempts EXCEPT ![Len(attempts)] = [kind |-> "response", data |-> data]]
    /\ IF downloadable(data)
       THEN /\ downloadRequests' = downloadRequests \cup {Len(attempts)}
            /\ exportPc' = "downloading"
            /\ UNCHANGED exporting
       ELSE /\ exportPc' = "idle"
            /\ exporting' = FALSE
            /\ UNCHANGED downloadRequests
    /\ UNCHANGED error

PostResolved ==
    /\ \E data \in Responses : postResolved(data)
    /\ ExpFrame

\* the POST rejects: catch and finally, export/page.tsx:69-73
postRejected(detail) ==
    /\ exportPc = "posting"
    /\ error' = IF detail # "" THEN detail ELSE "Export failed"
    /\ attempts' = [attempts EXCEPT ![Len(attempts)] = [kind |-> "error", detail |-> detail]]
    /\ exporting' = FALSE
    /\ exportPc' = "idle"
    /\ UNCHANGED <<result, downloadRequests>>

PostRejected ==
    /\ \E detail \in Details : postRejected(detail)
    /\ ExpFrame

\* the download resolves and the file is saved, export/page.tsx:60-67, 71-73
DownloadResolved ==
    /\ exportPc = "downloading"
    /\ exporting' = FALSE
    /\ exportPc' = "idle"
    /\ UNCHANGED <<result, error, attempts, downloadRequests>>
    /\ ExpFrame

\* the download rejects: catch and finally, export/page.tsx:69-73
downloadRejected(detail) ==
    /\ exportPc = "downloading"
    /\ error' = IF detail # "" THEN detail ELSE "Export failed"
    /\ exporting' = FALSE
    /\ exportPc' = "idle"
    /\ UNCHANGED <<result, attempts, downloadRequests>>

DownloadRejected ==
    /\ \E detail \in Details : downloadRejected(detail)
    /\ ExpFrame

-----------------------------------------------------------------------------
(* Export pages open side by side, and the export service behind           *)
(* POST /api/export/invoices-bundle.  The service is not part of the front *)
(* end: its range-scoped lock is modelled from the design notes.           *)

MaxTabs == 2

Tabs == 1..MaxTabs

\* start_date and end_date of the request body, export/page.tsx:45-46
Ranges ==
    {[start_date |-> "2024-01-01", end_date |-> "2024-01-06"],
     [start_date |-> "2024-01-08", end_date |-> "2024-01-13"]}

NoRange == [start_date |-> "", end_date |-> ""]

LockInit ==
    /\ tabPc = [t \in Tabs |-> "idle"]
    /\ tabRange = [t \in Tabs |-> NoRange]
    /\ building = [t \in Tabs |-> "none"]

\* a page submits its form: the button and the inputs are disabled while it is
\* exporting, export/page.tsx:37-50, 108, 121, 133
tabSubmit(t, range) ==
    /\ tabPc[t] = "idle"
    /\ tabPc' = [tabPc EXCEPT ![t] = "posting"]
    /\ tabRange' = [tabRange EXCEPT ![t] = range]
    /\ UNCHANGED building

TabSubmit ==
    /\ \E t \in Tabs, range \in Ranges : tabSubmit(t, range)
    /\ LockFrame

\* the lock scoped to the service instead of the range of the request: it looks
\* for a build of the empty range, which no request has
rangeFree_unscoped(range) ==
    \A t \in Tabs : building[t] = "none" \/ tabRange[t] # NoRange

\* no build holds the lock of the range
rangeFree(range) ==
    \A t \in Tabs : building[t] = "none" \/ tabRange[t] # range

\* the service takes the lock of the range and starts validating
acquireRangeLock(t) ==
    /\ tabPc[t] = "posting"
    /\ building[t] = "none"
    /\ rangeFree(tabRange[t])
    /\ building' = [building EXCEPT ![t] = "validating"]
    /\ UNCHANGED <<tabPc, tabRange>>

AcquireRangeLock ==
    /\ \E t \in Tabs : acquireRangeLock(t)
    /\ LockFrame

\* validation passed: assembly begins, the lock is kept
BeginAssembly ==
    /\ \E t \in Tabs :
          /\ building[t] = "validating"
          /\ building' = [building EXCEPT ![t] = "assembling"]
    /\ UNCHANGED <<tabPc, tabRange>>
    /\ LockFrame

\* the build ends, in validation or in assembly, without an artifact: the lock is
\* released and the page is answered (export/page.tsx:52-55, 69-73)
BuildRejected ==
    /\ \E t \in Tabs :
          /\ building[t] # "none"
          /\ building' = [building EXCEPT ![t] = "none"]
          /\ tabPc' = [tabPc EXCEPT ![t] = "idle"]
    /\ UNCHANGED tabRange
    /\ LockFrame

\* assembly completes: the lock is released and the page goes on to download the
\* bundle (export/page.tsx:52-58)
BuildCompleted ==
    /\ \E t \in Tabs :
          /\ building[t] = "assembling"
          /\ building' = [building EXCEPT ![t] = "none"]
          /\ tabPc' = [tabPc EXCEPT ![t] = "downloading"]
    /\ UNCHANGED tabRange
    /\ LockFrame

\* the download settles, export/page.tsx:60-73
TabDownloadSettled ==
    /\ \E t \in Tabs :
          /\ tabPc[t] = "downloading"
          /\ tabPc' = [tabPc EXCEPT ![t] = "idle"]
    /\ UNCHANGED <<tabRange, building>>
    /\ LockFrame

-----------------------------------------------------------------------------
(* Batches page, batches/page.tsx:75-439.  The batch records are kept by   *)
(* the service; what it does to them is modelled from the design notes.    *)

MaxBatches == 2

BatchIds == 1..MaxBatches

\* useState<string | null>(null)
NoBatch == 0

\* valid_tickets and successful_extractions a step can report
ResultCounts == {0, 1}

\* a batch as uploaded, batches/page.tsx:27-55; NoResult is an absent results field
NewBatch ==
    [status |-> "pending", parsing_results |-> NoResult,
     image_extraction_results |-> NoResult, extracting |-> FALSE]

BatchInit ==
    /\ server = [b \in BatchIds |-> NewBatch]
    /\ batches = [b \in BatchIds |-> NewBatch]
    /\ settled = {}
    /\ matchPosts = {}
    /\ processingBatch = NoBatch
    /\ parseRequests = {}

\* fetchBatches: setBatches(response.data), batches/page.tsx:87-101
fetchBatches ==
    /\ batches' = server
    /\ batches' # batches
    /\ UNCHANGED <<server, settled, matchPosts, processingBatch, parseRequests>>
    /\ BatchFrame

\* the Process button of a pending batch is rendered and enabled,
\* batches/page.tsx:395-408
processEnabled(batch, b) == batch.status = "pending" /\ processingBatch # b

\* processBatch up to its await, batches/page.tsx:103-106; one request per batch
\* is followed at a time
processBatch ==
    /\ \E b \in BatchIds :
          /\ processEnabled(batches[b], b)
          /\ b \notin parseRequests
          /\ processingBatch' = b
          /\ parseRequests' = parseRequests \cup {b}
    /\ UNCHANGED <<batches, server, settled, matchPosts>>
    /\ BatchFrame

\* POST /batches/<id>/parse answered, batches/page.tsx:107-113, 120-122; the
\* service has started parsing a pending batch
ParsePostResolved ==
    /\ \E b \in parseRequests :
          /\ server' = IF server[b].status = "pending"
                        THEN [server EXCEPT ![b].status = "processing"]
                        ELSE server
          /\ parseRequests' = parseRequests \ {b}
    /\ processingBatch' = NoBatch
    /\ UNCHANGED <<batches, settled, matchPosts>>
    /\ BatchFrame

\* POST /batches/<id>/parse failed, batches/page.tsx:114-122
ParsePostRejected ==
    /\ \E b \in parseRequests : parseRequests' = parseRequests \ {b}
    /\ processingBatch' = NoBatch
    /\ UNCHANGED <<batches, server, settled, matchPosts>>
    /\ BatchFrame

\* the service finishes parsing and records the results
ParseSettled ==
    /\ \E b \in BatchIds, n \in ResultCounts, st \in {"completed", "failed"} :
          /\ server[b].status = "processing"
          /\ server' = [server EXCEPT ![b].status = st,
                                      ![b].parsing_results = [valid_tickets |-> n]]
          /\ settled' = IF st = "completed" /\ n > 0
                        THEN settled \cup {<<b, "parse">>} ELSE settled
    /\ UNCHANGED <<batches, matchPosts, processingBatch, parseRequests>>
    /\ BatchFrame

\* the Extract Images button is rendered, batches/page.tsx:410-415
extractShown(batch) ==
    /\ batch.status = "completed"
    /\ batch.parsing_results # NoResult
    /\ batch.parsing_results.valid_tickets > 0

\* extractImages, batches/page.tsx:125-141; the service starts extracting
extractImages ==
    /\ \E b \in BatchIds :
          /\ extractShown(batches[b])
          /\ ~server[b].extracting
          /\ server' = [server EXCEPT ![b].extracting = TRUE]
    /\ UNCHANGED <<batches, settled, matchPosts, processingBatch, parseRequests>>
    /\ BatchFrame

\* the service finishes extracting and records the results
ExtractionSettled ==
    /\ \E b \in BatchIds, n \in ResultCounts :
          /\ server[b].extracting
          /\ server' = [server EXCEPT ![b].extracting = FALSE,
                          ![b].image_extraction_results = [successful_extractions |-> n]]
          /\ settled' = IF n > 0 THEN settled \cup {<<b, "extract">>} ELSE settled
    /\ UNCHANGED <<batches, matchPosts, processingBatch, parseRequests>>
    /\ BatchFrame

\* the Match Tickets button rendered beside the Extract Images button, without
\* the test of the extraction results
matchShown_noExtractionTest(batch) == extractShown(batch)

\* the Match Tickets button is rendered, batches/page.tsx:410, 416-421
matchShown(batch) ==
    /\ extractShown(batch)
    /\ batch.image_extraction_results # NoResult
    /\ batch.image_extraction_results.successful_extractions > 0

\* matchTickets, batches/page.tsx:143-159; the request is logged with the steps
\* that had completed with results when it was sent
matchTickets ==
    /\ \E b \in BatchIds :
          /\ matchShown(batches[b])
          /\ matchPosts' = matchPosts \cup {[id |-> b, after |-> settled]}
          /\ matchPosts' # matchPosts
    /\ UNCHANGED <<batches, server, settled, processingBatch, parseRequests>>
    /\ BatchFrame

-----------------------------------------------------------------------------
(* The auth provider, the router and the admin layout.                     *)

Roles == {"admin", "manager", "processor", "client"}
NoUser == "none"
Paths == {"/", "/login", "/admin"}
NoNav == ""
NoHook == [none |-> TRUE]

\* createContext<AuthContextType | undefined>(undefined)
defaultContext == [undefined |-> TRUE]

\* the value AuthProvider hands to its children
providerValue(u, l) ==
    [user |-> u, loading |-> l, login |-> "login", logout |-> "logout",
     register |-> "register"]

useAuth_noProviderCheck(context) == [returned |-> context]

\* useAuth: the context of the nearest provider, or an error without one
useAuth(context) ==
    IF context = defaultContext
    THEN [threw |-> "useAuth must be used within an AuthProvider"]
    ELSE [returned |-> context]

\* MainNav: the Admin link is shown to these users
isAdmin(u) == u = "admin" \/ u = "manager"

AdminLayout_anyUser(u, l) ==
    IF l THEN "loading" ELSE IF u = NoUser THEN "null" ELSE "content"

\* AdminLayout: what it renders from the provider's user and loading flag
AdminLayout(u, l) ==
    IF l THEN "loading"
    ELSE IF u = NoUser \/ (u # "admin" /\ u # "manager") THEN "null"
    ELSE "content"

\* the admin layout is on screen under /admin only
viewAt(path, u, l) == IF path = "/admin" THEN AdminLayout(u, l) ELSE "unmounted"

\* setUser / setLoading: the tree renders again, and AdminLayout's effect is due
\* again when one of its dependencies changed
setAuth(u, l) ==
    /\ user' = u
    /\ loading' = l
    /\ adminView' = viewAt(pathname, u, l)
    /\ adminEffect' =
          IF pathname = "/admin" /\ (u # user \/ l # loading) THEN "due" ELSE adminEffect

\* the page as loaded at / without a token
AuthInit ==
    /\ authPc = "mount"
    /\ accessToken = FALSE
    /\ user = NoUser
    /\ loading = TRUE
    /\ pathname = "/"
    /\ navTarget = NoNav
    /\ adminView = "unmounted"
    /\ adminEffect = "none"
    /\ hookResult = NoHook
    /\ tokenOrigin = "none"
    /\ logoutPc = "idle"

\* a full page load at a route: the provider is constructed again
reload ==
    /\ \E path \in Paths :
          /\ pathname' = path
          /\ adminView' = viewAt(path, NoUser, TRUE)
          /\ adminEffect' = IF path = "/admin" THEN "due" ELSE "none"
    /\ authPc' = "mount"
    /\ user' = NoUser
    /\ loading' = TRUE
    /\ navTarget' = NoNav
    /\ hookResult' = NoHook
    /\ tokenOrigin' = IF accessToken THEN "earlier" ELSE "none"
    /\ logoutPc' = "idle"
    /\ UNCHANGED accessToken
    /\ AuthFrame

\* checkAuth up to its await
checkAuth ==
    /\ authPc = "mount"
    /\ IF ~accessToken
       THEN /\ setAuth(user, FALSE)
            /\ authPc' = "done"
       ELSE /\ authPc' = "fetching"
            /\ UNCHANGED <<user, loading, adminView, adminEffect>>
    /\ tokenOrigin' = IF accessToken THEN "earlier" ELSE "none"
    /\ UNCHANGED <<accessToken, pathname, navTarget, hookResult, logoutPc>>
    /\ AuthFrame

\* GET /api/users/me answered with the user
UsersMeResolved ==
    /\ authPc = "fetching"
    /\ \E r \in Roles : setAuth(r, FALSE)
    /\ authPc' = "done"
    /\ UNCHANGED <<accessToken, pathname, navTarget, hookResult, tokenOrigin, logoutPc>>
    /\ AuthFrame

\* GET /api/users/me failed with another status than 401: the catch block
UsersMeRejected ==
    /\ authPc = "fetching"
    /\ accessToken' = FALSE
    /\ tokenOrigin' = "none"
    /\ setAuth(user, FALSE)
    /\ authPc' = "done"
    /\ UNCHANGED <<pathname, navTarget, hookResult, logoutPc>>
    /\ AuthFrame

\* the response interceptor on a 401: the token is removed and the browser is
\* sent to /login, where the page loads anew
unauthorized ==
    /\ accessToken' = FALSE
    /\ tokenOrigin' = "none"
    /\ pathname' = "/login"
    /\ navTarget' = NoNav
    /\ authPc' = "mount"
    /\ user' = NoUser
    /\ loading' = TRUE
    /\ adminView' = "unmounted"
    /\ adminEffect' = "none"
    /\ hookResult' = NoHook

\* GET /api/users/me answered 401
UsersMeUnauthorized ==
    /\ authPc = "fetching"
    /\ unauthorized
    /\ logoutPc' = "idle"
    /\ AuthFrame

\* login, once POST /api/auth/login has answered
login ==
    /\ \E r \in Roles : setAuth(r, loading)
    /\ accessToken' = TRUE
    /\ tokenOrigin' = "login"
    /\ navTarget' = "/"
    /\ UNCHANGED <<authPc, pathname, hookResult, logoutPc>>
    /\ AuthFrame

\* handleLogout: logout is called and awaits POST /api/auth/logout
handleLogout ==
    /\ logoutPc # "posting"
    /\ logoutPc' = "posting"
    /\ UNCHANGED <<authPc, accessToken, user, loading, pathname, navTarget, adminView,
                   adminEffect, hookResult, tokenOrigin>>
    /\ AuthFrame

\* logout, once POST /api/auth/logout has answered
logout ==
    /\ logoutPc = "posting"
    /\ setAuth(NoUser, loading)
    /\ accessToken' = FALSE
    /\ tokenOrigin' = "none"
    /\ navTarget' = "/login"
    /\ logoutPc' = "resolved"
    /\ UNCHANGED <<authPc, pathname, hookResult>>
    /\ AuthFrame

\* POST /api/auth/logout failed with another status than 401: logout throws at
\* its await
LogoutRejected ==
    /\ logoutPc = "posting"
    /\ logoutPc' = "rejected"
    /\ UNCHANGED <<authPc, accessToken, user, loading, pathname, navTarget, adminView,
                   adminEffect, hookResult, tokenOrigin>>
    /\ AuthFrame

\* POST /api/auth/logout answered 401
LogoutUnauthorized ==
    /\ logoutPc = "posting"
    /\ unauthorized
    /\ logoutPc' = "rejected"
    /\ AuthFrame

\* register, once POST /api/auth/register has answered with an access_token
register ==
    /\ \E r \in Roles : setAuth(r, loading)
    /\ accessToken' = TRUE
    /\ tokenOrigin' = "register"
    /\ navTarget' = "/"
    /\ UNCHANGED <<authPc, pathname, hookResult, logoutPc>>
    /\ AuthFrame

\* a link of MainNav is followed
followLink ==
    /\ \E path \in Paths :
          /\ path = "/admin" => isAdmin(user)
          /\ navTarget' = path
    /\ UNCHANGED <<authPc, accessToken, user, loading, pathname, adminView, adminEffect,
                   hookResult, tokenOrigin, logoutPc>>
    /\ AuthFrame

\* the router shows the route pushed last
NavigationCommits ==
    /\ navTarget # NoNav
    /\ pathname' = navTarget
    /\ navTarget' = NoNav
    /\ adminView' = viewAt(navTarget, user, loading)
    /\ adminEffect' =
          IF navTarget # "/admin" THEN "none"
          ELSE IF pathname = "/admin" THEN adminEffect
          ELSE "due"
    /\ UNCHANGED <<authPc, accessToken, user, loading, hookResult, tokenOrigin, logoutPc>>
    /\ AuthFrame

\* AdminLayout's effect
AdminLayoutEffect ==
    /\ pathname = "/admin"
    /\ adminEffect = "due"
    /\ IF ~loading /\ (user = NoUser \/ (user # "admin" /\ user # "manager"))
       THEN /\ navTarget' = "/"
            /\ adminEffect' = "redirected"
       ELSE /\ adminEffect' = "idle"
            /\ UNCHANGED navTarget
    /\ UNCHANGED <<authPc, accessToken, user, loading, pathname, adminView, hookResult,
                   tokenOrigin, logoutPc>>
    /\ AuthFrame

\* renderHook(() => useAuth()), with or without the AuthProvider wrapper
renderHook ==
    /\ \E wrapped \in BOOLEAN :
          hookResult' =
             [wrapped |-> wrapped,
              outcome |-> useAuth(IF wrapped THEN providerValue(user, loading)
                                  ELSE defaultContext)]
    /\ UNCHANGED <<authPc, accessToken, user, loading, pathname, navTarget, adminView,
                   adminEffect, tokenOrigin, logoutPc>>
    /\ AuthFrame

-----------------------------------------------------------------------------
(* The upload page: pairing of dropped files and the upload request.       *)

MaxDrops == 2
MaxDropLen == 3
MaxUploads == 1

NoFile == [none |-> TRUE]
NoToast == [none |-> TRUE]

\* the lower-case letter of every upper-case letter
lowerTable ==
    [c \in {Ch(UpperCase, i) : i \in 1..Len(UpperCase)} |->
        Ch(LowerCase, CHOOSE i \in 1..Len(UpperCase) : Ch(UpperCase, i) = c)]

\* toLowerCase of one character
lowerChar(c) == IF c \in DOMAIN lowerTable THEN lowerTable[c] ELSE c

\* String.prototype.toLowerCase
RECURSIVE toLowerCase(_)
toLowerCase(s) ==
    IF s = "" THEN "" ELSE lowerChar(Ch(s, 1)) \o toLowerCase(Tail1(s))

\* name.match(/\.xls$/i), name.match(/\.pdf$/i)
hasExtension(name, ext) ==
    /\ Len(name) >= Len(ext)
    /\ toLowerCase(SubSeq(name, Len(name) - Len(ext) + 1, Len(name))) = ext

\* name.replace(/\.xls$/i, ''), name.replace(/\.pdf$/i, '')
withoutExtension(name, ext) ==
    IF hasExtension(name, ext) THEN SubSeq(name, 1, Len(name) - Len(ext)) ELSE name

sameBaseName_caseSensitive(pdfName, baseName) ==
    withoutExtension(pdfName, ".pdf") = baseName

\* the comparison of a pdf's name with the base name of an xls
sameBaseName(pdfName, baseName) ==
    toLowerCase(withoutExtension(pdfName, ".pdf")) = toLowerCase(baseName)

isXls(f) == hasExtension(f.name, ".xls")
isPdf(f) == hasExtension(f.name, ".pdf")

\* pdfFiles.find(...), null when no pdf of the drop has the base name
matchingPdf(pdfFiles, baseName) ==
    IF \E i \in 1..Len(pdfFiles) : sameBaseName(pdfFiles[i].name, baseName)
    THEN pdfFiles[CHOOSE i \in 1..Len(pdfFiles) :
                     /\ sameBaseName(pdfFiles[i].name, baseName)
                     /\ \A k \in 1..(i - 1) : ~sameBaseName(pdfFiles[k].name, baseName)]
    ELSE NoFile

\* xlsFiles.forEach: one new pair per xls file of the drop
xlsPairs(xlsFiles, pdfFiles) ==
    [i \in 1..Len(xlsFiles) |->
        [xls |-> xlsFiles[i],
         pdf |-> matchingPdf(pdfFiles, withoutExtension(xlsFiles[i].name, ".xls"))]]

\* filePairs.findIndex(...): the first listed pair with an xls of the pdf's base
\* name and no pdf, 0 when there is none
existingPairIndex(pairs, pdfFile) ==
    LET fits(i) ==
            /\ pairs[i].xls # NoFile
            /\ toLowerCase(withoutExtension(pairs[i].xls.name, ".xls"))
                  = toLowerCase(withoutExtension(pdfFile.name, ".pdf"))
            /\ pairs[i].pdf = NoFile
    IN IF \E i \in 1..Len(pairs) : fits(i)
       THEN CHOOSE i \in 1..Len(pairs) : fits(i) /\ \A k \in 1..(i - 1) : ~fits(k)
       ELSE 0

\* pdfFiles.forEach from the k-th pdf on: a pdf no new pair holds goes to the
\* listed pair that waits for it, or into a new pair of its own
RECURSIVE pdfLoop(_, _, _, _)
pdfLoop(pdfFiles, k, pairs, newPairs) ==
    IF k > Len(pdfFiles) THEN pairs \o newPairs
    ELSE IF \E i \in 1..Len(newPairs) : newPairs[i].pdf = pdfFiles[k]
         THEN pdfLoop(pdfFiles, k + 1, pairs, newPairs)
    ELSE IF existingPairIndex(pairs, pdfFiles[k]) > 0
         THEN pdfLoop(pdfFiles, k + 1,
                      [pairs EXCEPT ![existingPairIndex(pairs, pdfFiles[k])].pdf = pdfFiles[k]],
                      newPairs)
    ELSE pdfLoop(pdfFiles, k + 1, pairs,
                 Append(newPairs, [xls |-> NoFile, pdf |-> pdfFiles[k]]))

\* the list after onDrop(acceptedFiles)
pairsAfterDrop(pairs, acceptedFiles) ==
    LET xlsFiles == SelectSeq(acceptedFiles, isXls)
        pdfFiles == SelectSeq(acceptedFiles, isPdf)
    IN pdfLoop(pdfFiles, 1, pairs, xlsPairs(xlsFiles, pdfFiles))

\* the names of the files a user has at hand
DropNames == {"a.xls", "A.XLS", "a.pdf", "b.pdf"}

\* the drops: up to MaxDropLen files of different names, in any order
DropSeqs ==
    {d \in UNION {[1..n -> DropNames] : n \in 1..MaxDropLen} :
        \A i, j \in 1..Len(d) : i # j => d[i] # d[j]}

\* the File objects of the drop numbered n
filesOfDrop(names, n) == [i \in 1..Len(names) |-> [id |-> <<n, i>>, name |-> names[i]]]

completePairs_all(pairs) == pairs

\* filePairs.filter(pair => pair.xls && pair.pdf)
completePairs(pairs) ==
    LET complete(pair) == pair.xls # NoFile /\ pair.pdf # NoFile
    IN SelectSeq(pairs, complete)

\* the files appended to the form data, pair by pair
RECURSIVE formFiles(_)
formFiles(pairs) ==
    IF pairs = <<>> THEN <<>>
    ELSE (IF Head(pairs).xls # NoFile THEN <<Head(pairs).xls>> ELSE <<>>)
         \o (IF Head(pairs).pdf # NoFile THEN <<Head(pairs).pdf>> ELSE <<>>)
         \o formFiles(Tail(pairs))

\* the error details a failed POST /upload/pairs can carry
NoDetail == [kind |-> "none"]
BatchErrors == {<<>>, <<"bad xls">>, <<"bad xls", "no pdf">>}
ErrorDetails ==
    {NoDetail, [kind |-> "string", text |-> "Too large"]}
    \cup {[kind |-> "object", message |-> m, msg |-> "", failed_batches |-> b] :
             m \in {"", "Upload failed"}, b \in BatchErrors}
    \cup {[kind |-> "object", message |-> "", msg |-> "Invalid", failed_batches |-> <<>>]}
UploadErrors == {[detail |-> d, message |-> "Request failed"] : d \in ErrorDetails}

\* Array.prototype.join('; ')
RECURSIVE joinErrors(_)
joinErrors(errors) ==
    IF errors = <<>> THEN ""
    ELSE IF Len(errors) = 1 THEN errors[1]
    ELSE errors[1] \o "; " \o joinErrors(Tail(errors))

\* getErrorMessage
getErrorMessage(err) ==
    LET detail == err.detail
    IN IF detail.kind = "object" /\ detail.message # ""
       THEN IF Len(detail.failed_batches) > 0
            THEN detail.message \o ". Errors: " \o joinErrors(detail.failed_batches)
            ELSE detail.message
       ELSE IF detail.kind = "object" /\ detail.msg # "" THEN detail.msg
       ELSE IF detail.kind = "string" /\ detail.text # "" THEN detail.text
       ELSE IF err.message # "" THEN err.message
       ELSE "An unexpected error occurred"

\* the description of the failure toast of uploadFiles
uploadErrorMessage(err) ==
    IF err.detail.kind = "object" /\ err.detail.message # ""
    THEN err.detail.message
    ELSE getErrorMessage(err)

UploadInit ==
    /\ filePairs = <<>>
    /\ uploading = FALSE
    /\ uploadPc = "idle"
    /\ uploadRequests = <<>>
    /\ toastShown = NoToast
    /\ lastDrop = <<>>
    /\ dropCount = 0

onDrop ==
    /\ dropCount < MaxDrops
    /\ \E names \in DropSeqs :
          /\ lastDrop' = filesOfDrop(names, dropCount + 1)
          /\ filePairs' = pairsAfterDrop(filePairs, lastDrop')
    /\ dropCount' = dropCount + 1
    /\ UNCHANGED <<uploading, uploadPc, uploadRequests, toastShown>>
    /\ UploadFrame

removePair ==
    /\ \E index \in 1..Len(filePairs) :
          filePairs' = SubSeq(filePairs, 1, index - 1)
                          \o SubSeq(filePairs, index + 1, Len(filePairs))
    /\ lastDrop' = <<>>
    /\ UNCHANGED <<uploading, uploadPc, uploadRequests, toastShown, dropCount>>
    /\ UploadFrame

\* uploadFiles up to its first await; the function returns early itself when no
\* pair is complete
uploadFiles ==
    /\ ~uploading
    /\ uploadPc = "idle"
    /\ Len(uploadRequests) < MaxUploads
    /\ IF Len(completePairs(filePairs)) = 0
       THEN /\ toastShown' = [title |-> "No complete pairs",
                             description |-> "Please add both XLS and PDF files for each pair"]
            /\ UNCHANGED <<uploading, uploadPc, uploadRequests>>
       ELSE /\ uploading' = TRUE
            /\ uploadPc' = "posting"
            /\ uploadRequests' = Append(uploadRequests, formFiles(completePairs(filePairs)))
            /\ UNCHANGED toastShown
    /\ lastDrop' = <<>>
    /\ UNCHANGED <<filePairs, dropCount>>
    /\ UploadFrame

\* POST /upload/pairs answered: the list is emptied and the batches are fetched
UploadResolved ==
    /\ uploadPc = "posting"
    /\ toastShown' = [title |-> "Upload successful", description |-> "Created batch"]
    /\ filePairs' = <<>>
    /\ uploadPc' = "fetching"
    /\ lastDrop' = <<>>
    /\ UNCHANGED <<uploading, uploadRequests, dropCount>>
    /\ UploadFrame

\* fetchBatches has returned (it catches its own errors), then the finally block
UploadBatchesFetched ==
    /\ uploadPc = "fetching"
    /\ uploading' = FALSE
    /\ uploadPc' = "idle"
    /\ lastDrop' = <<>>
    /\ UNCHANGED <<filePairs, uploadRequests, toastShown, dropCount>>
    /\ UploadFrame

\* POST /upload/pairs failed: the catch and the finally block
UploadRejected ==
    /\ uploadPc = "posting"
    /\ \E err \in UploadErrors :
          toastShown' = [title |-> "Upload failed", description |-> uploadErrorMessage(err),
                         error |-> err]
    /\ uploading' = FALSE
    /\ uploadPc' = "idle"
    /\ lastDrop' = <<>>
    /\ UNCHANGED <<filePairs, uploadRequests, dropCount>>
    /\ UploadFrame

RestInit == LockInit /\ BatchInit /\ AuthInit /\ UploadInit

-----------------------------------------------------------------------------
(* Specifications.                                                         *)

RefNext ==
    \/ ReadReferenceColumn
    \/ CallParseReference
    \/ SkipEmptyReference
    \/ NextReferenceColumn

ExNext == ExtractFile

ConvNext ==
    \/ AddFiles
    \/ RemoveFile
    \/ clearFiles
    \/ ProcessAllFiles
    \/ FileRead
    \/ NextIteration
    \/ downloadMergedCSV
    \/ downloadDetailedReport

ExpNext ==
    \/ handleExport
    \/ PostResolved
    \/ PostRejected
    \/ DownloadResolved
    \/ DownloadRejected

BatchNext ==
    \/ fetchBatches
    \/ processBatch
    \/ ParsePostResolved
    \/ ParsePostRejected
    \/ ParseSettled
    \/ extractImages
    \/ ExtractionSettled
    \/ matchTickets

LockNext ==
    \/ TabSubmit
    \/ AcquireRangeLock
    \/ BeginAssembly
    \/ BuildRejected
    \/ BuildCompleted
    \/ TabDownloadSettled

AuthNext ==
    \/ reload
    \/ checkAuth
    \/ UsersMeResolved
    \/ UsersMeRejected
    \/ UsersMeUnauthorized
    \/ login
    \/ handleLogout
    \/ logout
    \/ LogoutRejected
    \/ LogoutUnauthorized
    \/ register
    \/ followLink
    \/ NavigationCommits
    \/ AdminLayoutEffect
    \/ renderHook

UploadNext ==
    \/ onDrop
    \/ removePair
    \/ uploadFiles
    \/ UploadResolved
    \/ UploadBatchesFetched
    \/ UploadRejected

\* the probe of the document parser at rest
ExIdle ==
    /\ exPc = "ready"
    /\ csvContent = ""
    /\ extracted = NoExtract

\* the reference resolver on the columns a header can carry
InitRef == RefInit /\ ExIdle /\ ConvInit /\ ExpInit /\ RestInit

SpecRef ==
    InitRef /\ [][RefNext]_vars

\* the document parser on the files of the catalogue
InitExtract == RefInit /\ ExInit /\ ConvInit /\ ExpInit /\ RestInit

SpecExtract ==
    InitExtract /\ [][ExNext]_vars

\* the converter page
Init == RefInit /\ ExIdle /\ ConvInit /\ ExpInit /\ RestInit

SpecConv ==
    Init /\ [][ConvNext]_vars

\* the export page
SpecExport ==
    Init /\ [][ExpNext]_vars

\* the batches page and the batch records of the service
SpecBatch ==
    Init /\ [][BatchNext]_vars

\* the export pages and the export service
SpecLock ==
    Init /\ [][LockNext]_vars

\* the auth provider, the router and the admin layout
SpecAuth ==
    Init /\ [][AuthNext]_vars

\* the upload page
SpecUpload ==
    Init /\ [][UploadNext]_vars

-----------------------------------------------------------------------------
(* Properties of the document parser and the merged ledger.                *)

\* the status extractTicketData gives the block that starts with this header line
statusOfHeader(line) == headerStatus(line, parseCSVLine(line))

\* the line starts a ticket block, part_005:595
isHeaderLine(rawLine) ==
    /\ col(parseCSVLine(trim(rawLine)), 0) = "TICKET #"
    /\ col(parseCSVLine(trim(rawLine)), 1) # ""

\* the positions of the header lines
headerAt(lines) == {h \in DOMAIN lines : isHeaderLine(lines[h])}

RECURSIVE joinLines(_)
joinLines(lines) ==
    IF Len(lines) = 0 THEN ""
    ELSE IF Len(lines) = 1 THEN lines[1]
    ELSE lines[1] \o "\n" \o joinLines(Tail(lines))

\* the k-th ticket block of a file: its header line and the rows up to the next header
blockOf(lines, k) ==
    SubSeq(lines, kth(headerAt(lines), k),
           IF k = Cardinality(headerAt(lines)) THEN Len(lines)
           ELSE kth(headerAt(lines), k + 1) - 1)

\* the block that ends at line n
blockEndingAt(lines, n) ==
    SubSeq(lines, maxOf({h \in headerAt(lines) : h <= n}), n)

\* what extractTicketData makes of the k-th block taken alone
aloneOf(lines, k) == extractTicketData(joinLines(blockOf(lines, k)), "a.csv")

hdrsOf(tickets) == [k \in DOMAIN tickets |-> tickets[k].hdr]

\* the tickets of the first k blocks, each block parsed on its own
RECURSIVE reprintAlone(_, _)
reprintAlone(lines, k) ==
    IF k = 0 THEN <<>>
    ELSE reprintAlone(lines, k - 1) \o aloneOf(lines, k).reprintTickets

RECURSIVE voidAlone(_, _)
voidAlone(lines, k) ==
    IF k = 0 THEN <<>>
    ELSE voidAlone(lines, k - 1) \o hdrsOf(aloneOf(lines, k).voidTickets)

\* the statuses of the blocks of a file, each classified from its own header
blockStatuses(lines) ==
    [k \in 1..Cardinality(headerAt(lines)) |->
        statusOfHeader(trim(lines[kth(headerAt(lines), k)]))]

\* C1: the merged ledger, convertedData, and the rows handed to the download by
\* downloadMergedCSV never hold a ticket whose block was classified REPRINT VOID;
\* the tickets of voidTickets are all of that class.
C1_NoVoidInLedger ==
    /\ \A k \in DOMAIN convertedData :
          statusOfHeader(convertedData[k].hdr) # "REPRINT VOID"
    /\ \A k \in DOMAIN mergedCsv : statusOfHeader(mergedCsv[k].hdr) # "REPRINT VOID"
    /\ \A k \in DOMAIN voidTickets : statusOfHeader(voidTickets[k].hdr) = "REPRINT VOID"

\* a file with a REPRINT VOID block was processed, the ledger is not empty and was
\* downloaded
C1_Witness ==
    /\ Len(voidTickets) > 0
    /\ Len(convertedData) > 0
    /\ Len(mergedCsv) = Len(convertedData)
    /\ processingStats.processedFiles > 0

\* the header line carries a status tag
hasStatusTag(line) ==
    \/ includes(toUpperCase(line), "REPRINT")
    \/ includes(toUpperCase(line), "VOID")
    \/ includes(toUpperCase(line), "ORIGINAL")

\* C2: a block whose header line carries no status tag gets status ORIGINAL: it is
\* filed under the skipped tickets and is not among the REPRINT tickets that go
\* to the merged ledger.
C2_NoTagIsOriginal ==
    exPc = "done" =>
        /\ \A k \in DOMAIN extracted.reprintTickets :
              hasStatusTag(extracted.reprintTickets[k].hdr)
        /\ \A h \in headerAt(splitLines(csvContent)) :
              ~hasStatusTag(splitLines(csvContent)[h]) =>
                  \E k \in DOMAIN extracted.skippedTickets :
                      extracted.skippedTickets[k].hdr = trim(splitLines(csvContent)[h])

\* a VOID marker comes after a REPRINT marker somewhere in the text
voidFollowsReprint(text) ==
    \E i \in 1..Len(text), j \in 1..Len(text) :
        /\ i + 6 < j
        /\ j + 3 <= Len(text)
        /\ toUpperCase(SubSeq(text, i, i + 6)) = "REPRINT"
        /\ toUpperCase(SubSeq(text, j, j + 3)) = "VOID"

\* C3: a block is classified REPRINT VOID only when, within the rows of that block,
\* a void marker follows a reprint marker.
C3_VoidOnlyAfterReprint ==
    exPc = "done" =>
        \A k \in DOMAIN extracted.voidTickets :
            voidFollowsReprint(
                joinLines(blockEndingAt(splitLines(csvContent),
                                        extracted.voidTickets[k].lineNumber)))

\* C4: the classification of a block depends on the rows of that block alone: the
\* REPRINT tickets and the REPRINT VOID tickets of a file are those of its blocks,
\* each parsed on its own, in the order of the blocks.
C4_BlocksIndependent ==
    exPc = "done" =>
        /\ extracted.reprintTickets =
              reprintAlone(splitLines(csvContent),
                           Cardinality(headerAt(splitLines(csvContent))))
        /\ hdrsOf(extracted.voidTickets) =
              voidAlone(splitLines(csvContent),
                        Cardinality(headerAt(splitLines(csvContent))))

\* a file with a REPRINT VOID block between two REPRINT blocks was parsed: the two
\* REPRINT tickets are kept and the void one is set aside
C4_Witness ==
    /\ exPc = "done"
    /\ blockStatuses(splitLines(csvContent)) = <<"REPRINT", "REPRINT VOID", "REPRINT">>
    /\ Len(extracted.reprintTickets) = 2
    /\ Len(extracted.voidTickets) = 1

-----------------------------------------------------------------------------
(* Properties of parseReference.                                           *)

allDigits(s) == Len(s) > 0 /\ \A i \in 1..Len(s) : IsDigit(Ch(s, i))

allSpaces(s) == Len(s) > 0 /\ \A i \in 1..Len(s) : IsSpace(Ch(s, i))

\* s is the prefix followed by digits
isKey(s, prefix) ==
    /\ Len(s) > Len(prefix)
    /\ SubSeq(s, 1, Len(prefix)) = prefix
    /\ allDigits(SubSeq(s, Len(prefix) + 1, Len(s)))

\* ref is a key of k characters, whitespace, and trailing text that starts at t
keyThenTextAt(ref, prefix, k, t) ==
    /\ k + 1 < t
    /\ t <= Len(ref)
    /\ isKey(SubSeq(ref, 1, k), prefix)
    /\ allSpaces(SubSeq(ref, k + 1, t - 1))
    /\ ~IsSpace(Ch(ref, t))

textFrom(ref, t) == SubSeq(ref, t, Len(ref))

\* C5: a reference of the form hash-number, whitespace, trailing text resolves to
\* the hash-number as primary key and exactly the trailing text as note.
C5_HashThenText ==
    refPc = "parsed" =>
        \A k \in 1..Len(refInput), t \in 1..Len(refInput) :
            keyThenTextAt(refInput, "#", k, t) =>
                refOut = [main |-> SubSeq(refInput, 1, k),
                          additional |-> textFrom(refInput, t)]

\* C6 as stated: TOPPSMM followed by digits and nothing else resolves to MM plus
\* the digits and an empty note.
C6_VendorCodeAloneEmptyNote ==
    (refPc = "parsed" /\ isKey(refInput, "TOPPSMM")) =>
        refOut = [main |-> "MM" \o SubSeq(refInput, 8, Len(refInput)), additional |-> ""]

\* C6: TOPPSMM followed by digits and nothing else resolves to MM plus the digits,
\* and the note is the vendor annotation TOPPS.
C6_VendorCodeAlone ==
    (refPc = "parsed" /\ isKey(refInput, "TOPPSMM")) =>
        refOut = [main |-> "MM" \o SubSeq(refInput, 8, Len(refInput)),
                  additional |-> "TOPPS"]

\* a vendor-prefixed code alone was parsed
C6_Witness ==
    /\ refPc = "parsed"
    /\ isKey(refInput, "TOPPSMM")
    /\ refOut.main = "MM" \o SubSeq(refInput, 8, Len(refInput))

\* C7: a reference of the form TOPPSMM plus digits, whitespace, trailing text
\* resolves to MM plus the digits as primary key, and the note is the vendor
\* annotation TOPPS followed by the trailing text.
C7_VendorCodeThenText ==
    refPc = "parsed" =>
        \A k \in 1..Len(refInput), t \in 1..Len(refInput) :
            keyThenTextAt(refInput, "TOPPSMM", k, t) =>
                refOut = [main |-> "MM" \o SubSeq(refInput, 8, k),
                          additional |-> "TOPPS " \o textFrom(refInput, t)]

\* none of the six pattern rules of parseReference matches
noRuleMatches(ref) ==
    /\ ~hashPattern(ref).ok
    /\ ~toppsPattern(ref).ok
    /\ ~simpleToppsMmPattern(ref).ok
    /\ ~mmPattern(ref).ok
    /\ ~simpleHashPattern(ref)
    /\ ~simpleMmPattern(ref)

\* the text with every run of whitespace replaced by one space
RECURSIVE squeeze(_)
squeeze(s) ==
    IF s = "" THEN ""
    ELSE IF IsSpace(Ch(s, 1))
    THEN " " \o squeeze(SubSeq(s, spaceRun(s, 1) + 1, Len(s)))
    ELSE Ch(s, 1) \o squeeze(Tail1(s))

\* the first k characters are the first token, and more tokens follow
firstTokenAt(ref, k) ==
    /\ k < Len(ref)
    /\ \A i \in 1..k : ~IsSpace(Ch(ref, i))
    /\ IsSpace(Ch(ref, k + 1))

hasKeyShape(token) == isKey(token, "#") \/ isKey(token, "MM")

firstTokenIsKey(ref) ==
    \E k \in 1..Len(ref) : firstTokenAt(ref, k) /\ hasKeyShape(SubSeq(ref, 1, k))

\* C8: a reference that no pattern rule matches is split on whitespace: a first
\* token of primary-key shape (hash-number or MM code) is the primary key and the
\* remaining tokens, one space between them, are the note; otherwise the whole
\* input, unchanged, is the primary key and the note is empty.
C8_Fallback ==
    (refPc = "parsed" /\ noRuleMatches(refInput)) =>
        /\ \A k \in 1..Len(refInput) :
              (firstTokenAt(refInput, k) /\ hasKeyShape(SubSeq(refInput, 1, k))) =>
                  refOut = [main |-> SubSeq(refInput, 1, k),
                            additional |->
                                squeeze(trimStart(textFrom(refInput, k + 1)))]
        /\ ~firstTokenIsKey(refInput) =>
              refOut = [main |-> refInput, additional |-> ""]

\* the fallback took a key-shaped first token off a reference of several tokens
C8_Witness ==
    /\ refPc = "parsed"
    /\ noRuleMatches(refInput)
    /\ firstTokenIsKey(refInput)
    /\ refOut.additional # ""
    /\ refOut.main # refInput

-----------------------------------------------------------------------------
(* Properties of the export page.                                          *)

\* C9: the bundle is requested for download only for an attempt whose export
\* response reported success together with an export id; an attempt that is still
\* in progress, was rejected or failed has no download request.
C9_DownloadOnlyWhenDownloadable ==
    \A k \in downloadRequests :
        /\ k \in DOMAIN attempts
        /\ attempts[k].kind = "response"
        /\ attempts[k].data.success
        /\ attempts[k].data.export_id # ""

\* a download was requested after a failed attempt, and failed, pending and
\* rejected attempts are on the log without one
C9_Witness ==
    /\ Len(attempts) = 2
    /\ downloadRequests = {2}
    /\ attempts[1].kind # "pending"

\* the page shows a failure message and no itemized reasons
bareFailure ==
    /\ error # ""
    /\ (result = NoResult \/ result.validation_errors = <<>>)

\* C10: every export attempt ends with the user shown a downloadable artifact or a
\* rejection with the itemized validation report; no attempt ends with only a
\* failure message without itemized reasons.
C10_NoBareFailure ==
    (exportPc = "idle" /\ attempts # <<>>) => ~bareFailure

\* C11: at most one export build for the same date range is in progress at any
\* time: while a build for a range is validating or assembling, no second build
\* for that range has started.
C11_OneBuildPerRange ==
    \A t1 \in Tabs, t2 \in Tabs :
        (t1 # t2 /\ building[t1] # "none" /\ building[t2] # "none") =>
            tabRange[t1] # tabRange[t2]

\* a second request for a range waits while the build of the first one assembles
C11_Witness ==
    \E t1 \in Tabs, t2 \in Tabs :
        /\ t1 # t2
        /\ tabRange[t1] = tabRange[t2]
        /\ building[t1] = "assembling"
        /\ tabPc[t2] = "posting"
        /\ building[t2] = "none"

\* C12: a match request is sent for a batch only after the parsing of that batch
\* has completed with at least one valid ticket and its image extraction has
\* completed with at least one successful extraction.
C12_MatchAfterParseAndExtract ==
    \A m \in matchPosts :
        /\ <<m.id, "parse">> \in m.after
        /\ <<m.id, "extract">> \in m.after

\* matching was started for one batch while another batch, parsed with valid
\* tickets, has no successful extraction and no match request
C12_Witness ==
    \E m \in matchPosts, b \in BatchIds :
        /\ b # m.id
        /\ extractShown(batches[b])
        /\ ~matchShown(batches[b])
        /\ \A other \in matchPosts : other.id # b

\* C13: within one processing run every ticket number appears at most once in the
\* merged output, also when the same file was selected twice.
C13_TicketNumbersUnique ==
    \A i \in DOMAIN convertedData, j \in DOMAIN convertedData :
        i # j => convertedData[i].TicketNumber # convertedData[j].TicketNumber

\* C14: every ticket of the merged output has a net weight greater than zero; a
\* REPRINT block whose net weight is missing, malformed or zero is left out.
C14_MergedNetPositive ==
    \A k \in DOMAIN convertedData : convertedData[k].Net > 0

\* the net weight of the ticket is its gross weight minus its tare weight, and no
\* weight is negative
weightsConsistent(t) ==
    /\ t.Net = t.Gross - t.Tare
    /\ t.Gross >= 0
    /\ t.Tare >= 0
    /\ t.Net >= 0

\* C15: for every ticket record extractTicketData produces, the net weight is the
\* gross weight minus the tare weight, and the three weights are not negative.
C15_NetIsGrossMinusTare ==
    exPc = "done" =>
        /\ \A k \in DOMAIN extracted.reprintTickets :
              weightsConsistent(extracted.reprintTickets[k])
        /\ \A k \in DOMAIN extracted.voidTickets :
              weightsConsistent(extracted.voidTickets[k])
        /\ \A k \in DOMAIN extracted.skippedTickets :
              weightsConsistent(extracted.skippedTickets[k])

\* the header has a weight column that is not empty and holds no digit
hasMalformedWeight(hdr, label) ==
    \E j \in 0..Len(parseCSVLine(hdr)) :
        /\ col(parseCSVLine(hdr), j) = label
        /\ col(parseCSVLine(hdr), j + 1) # ""
        /\ \A i \in 1..Len(col(parseCSVLine(hdr), j + 1)) :
              ~IsDigit(Ch(col(parseCSVLine(hdr), j + 1), i))

\* C16: a malformed weight does not stop the parse and yields zero, and every
\* ticket whose weight was malformed is flagged in the processing report.
C16_MalformedWeightFlagged ==
    \A k \in DOMAIN convertedData :
        hasMalformedWeight(convertedData[k].hdr, "NET") =>
            /\ convertedData[k].Net = 0
            /\ reportContent # <<>> =>
                  \E n \in DOMAIN reportContent :
                      /\ reportContent[n].kind = "void"
                      /\ reportContent[n].TicketNumber = convertedData[k].TicketNumber

\* the ticket number column of the header is not a number
malformedHeader(hdr) == ~IsDigit(Ch(col(parseCSVLine(hdr), 1), 1))

\* C17: a malformed ticket block, such as a header whose ticket number cannot be
\* parsed, does not abort the file: it is recorded as a skipped ticket, it is not
\* among the REPRINT tickets, and the blocks after it are parsed.
C17_MalformedBlockSkipped ==
    exPc = "done" =>
        /\ extracted.totalFound = Cardinality(headerAt(splitLines(csvContent)))
        /\ \A k \in DOMAIN extracted.reprintTickets :
              ~malformedHeader(extracted.reprintTickets[k].hdr)
        /\ \A h \in headerAt(splitLines(csvContent)) :
              malformedHeader(trim(splitLines(csvContent)[h])) =>
                  \E k \in DOMAIN extracted.skippedTickets :
                      extracted.skippedTickets[k].hdr = trim(splitLines(csvContent)[h])

\* C18: a file that fails never stops the run, and when a run of processAllFiles
\* finishes, the processed files and the files in error add up to totalFiles,
\* which is the number of selected files, each of them recorded in fileDetails.
C18_RunAccountsForEveryFile ==
    [][\A r \in 1..MaxRuns :
          (runs[r].phase = "sleeping" /\ runs'[r] = NoRun) =>
              /\ processingStats'.processedFiles + processingStats'.errorFiles
                    = processingStats'.totalFiles
              /\ processingStats'.totalFiles = Len(selectedFiles')
              /\ Len(processingStats'.fileDetails) = Len(selectedFiles')]_vars

-----------------------------------------------------------------------------
(* Properties of the admin layout and the auth context.                    *)

\* C19: admin content is on screen only when loading has finished and the user
\* is an admin or a manager; and when loading has finished with no such user the
\* admin layout's effect sends the router to the home page
C19_AdminContentGuarded ==
    /\ adminView = "content" => (~loading /\ user \in {"admin", "manager"})
    /\ (pathname = "/admin" /\ (loading \/ user \notin {"admin", "manager"}))
          => adminView \in {"loading", "null"}
    /\ (pathname = "/admin" /\ ~loading /\ user \notin {"admin", "manager"})
          => adminEffect \in {"due", "redirected"}

C19_Witness ==
    /\ pathname = "/admin"
    /\ ~loading
    /\ user = "client"
    /\ adminView = "null"
    /\ adminEffect = "redirected"
    /\ navTarget = "/"

\* C20: useAuth without an AuthProvider fails with 'useAuth must be used within
\* an AuthProvider'; under an AuthProvider it returns a context that has login,
\* logout and register
C20_UseAuthNeedsProvider ==
    hookResult # NoHook =>
       IF hookResult.wrapped
       THEN /\ DOMAIN hookResult.outcome = {"returned"}
            /\ {"login", "logout", "register"} \subseteq DOMAIN hookResult.outcome.returned
       ELSE hookResult.outcome = [threw |-> "useAuth must be used within an AuthProvider"]

C20_Witness ==
    /\ hookResult # NoHook
    /\ ~hookResult.wrapped
    /\ hookResult.outcome = [threw |-> "useAuth must be used within an AuthProvider"]

-----------------------------------------------------------------------------
(* Properties of the upload page.                                          *)

\* the name of a dropped file without its four-character extension, in lower case
lowerBase(f) == toLowerCase(SubSeq(f.name, 1, Len(f.name) - 4))

dropped(f) == \E k \in 1..Len(lastDrop) : lastDrop[k] = f

onlyXls(pair) == pair.xls # NoFile /\ pair.pdf = NoFile
onlyPdf(pair) == pair.xls = NoFile /\ pair.pdf # NoFile

C22_IncompletePairCompleted ==
    \A i, j \in 1..Len(filePairs) :
       (/\ lastDrop # <<>>
        /\ onlyXls(filePairs[i])
        /\ onlyPdf(filePairs[j])
        /\ lowerBase(filePairs[i].xls) = lowerBase(filePairs[j].pdf))
       => (dropped(filePairs[i].xls) <=> dropped(filePairs[j].pdf))

\* C26: the toast of a failed upload whose error detail has a message and failed
\* batches shows the message and, after it, the error of every failed batch
C26_FailedBatchesShown ==
    (/\ toastShown # NoToast
     /\ toastShown.title = "Upload failed"
     /\ toastShown.error.detail.kind = "object"
     /\ toastShown.error.detail.message # ""
     /\ Len(toastShown.error.detail.failed_batches) > 0)
    => /\ startsWith(toastShown.description, toastShown.error.detail.message)
       /\ \A k \in 1..Len(toastShown.error.detail.failed_batches) :
             includes(SubSeq(toastShown.description,
                             Len(toastShown.error.detail.message) + 1,
                             Len(toastShown.description)),
                      toastShown.error.detail.failed_batches[k])

\* a request of complete pairs: an xls file, then a pdf file, pair after pair
wellPaired(files) ==
    /\ Len(files) > 0
    /\ Len(files) % 2 = 0
    /\ \A k \in 1..Len(files) :
          /\ files[k] # NoFile
          /\ IF k % 2 = 1 THEN isXls(files[k]) ELSE isPdf(files[k])

\* C27: a step that sends an upload request sends the files of the complete
\* pairs, one xls and one pdf per pair; uploadFiles with no complete pair sends
\* nothing; and the failure of a request leaves the list of pairs as it is and
\* clears the uploading flag
C27_UploadOnlyCompletePairs ==
    [][/\ uploadRequests' # uploadRequests =>
             /\ \E i \in 1..Len(filePairs) : ~onlyXls(filePairs[i]) /\ ~onlyPdf(filePairs[i])
             /\ Len(uploadRequests') = Len(uploadRequests) + 1
             /\ wellPaired(uploadRequests'[Len(uploadRequests')])
             /\ Len(uploadRequests'[Len(uploadRequests')])
                   = 2 * Cardinality({i \in 1..Len(filePairs) :
                                         ~onlyXls(filePairs[i]) /\ ~onlyPdf(filePairs[i])})
       /\ (\A i \in 1..Len(filePairs) : onlyXls(filePairs[i]) \/ onlyPdf(filePairs[i]))
             => uploadRequests' = uploadRequests
       /\ (uploadPc = "posting" /\ toastShown' # toastShown /\ toastShown'.title = "Upload failed")
             => (filePairs' = filePairs /\ uploading' = FALSE)]_vars

C27_Witness ==
    /\ toastShown # NoToast
    /\ toastShown.title = "Upload failed"
    /\ ~uploading
    /\ Len(uploadRequests) = 1
    /\ Len(uploadRequests[1]) = 2
    /\ \E i \in 1..Len(filePairs) : onlyPdf(filePairs[i])

\* C29: no pdf file is attached to two pairs of the list
C29_PdfInOnePair ==
    \A i, j \in 1..Len(filePairs) :
       (i # j /\ filePairs[i].pdf # NoFile) => filePairs[i].pdf # filePairs[j].pdf

-----------------------------------------------------------------------------
(* Properties of the session.                                              *)

\* C23: the end of a session check that was in flight when login stored a token
\* leaves that token in place
C23_LoginTokenKept ==
    [][(authPc = "fetching" /\ tokenOrigin = "login" /\ authPc' # "fetching")
          => accessToken']_vars

\* C28: when a logout call ends, with the request answered or failed, the token
\* is gone from local storage and there is no user
C28_LogoutClearsSession ==
    [][(logoutPc = "posting" /\ logoutPc' \in {"resolved", "rejected"})
          => (~accessToken' /\ user' = NoUser)]_vars

-----------------------------------------------------------------------------
(* Properties of the batches page.                                         *)

\* C24: while a parse request of a batch is in flight, the Process button of
\* that batch is not enabled
C24_ProcessDisabledInFlight ==
    \A b \in parseRequests : ~processEnabled(batches[b], b)

-----------------------------------------------------------------------------
(* Properties of the converter's statistics.                               *)

\* the REPRINT tickets of the files a list of file details names as processed
RECURSIVE listedReprints(_)
listedReprints(details) ==
    IF details = <<>> THEN <<>>
    ELSE (IF Head(details).status = "processed"
          THEN LET file == CHOOSE f \in ConvFiles : f.name = Head(details).name
               IN extractTicketData(file.content, file.name).reprintTickets
          ELSE <<>>)
         \o listedReprints(Tail(details))

\* C25: the statistics add up, totalTickets = reprintTickets + voidTickets +
\* skippedTickets, and the merged tickets are the REPRINT tickets of the files
\* listed as processed
C25_StatsConsistent ==
    /\ processingStats.counts = "number" =>
          processingStats.totalTickets =
             processingStats.reprintTickets + processingStats.voidTickets
                + processingStats.skippedTickets
    /\ convertedData = listedReprints(processingStats.fileDetails)

-----------------------------------------------------------------------------
(* Properties of the reference resolver under repetition.                  *)

\* C30: the primary key parseReference returned, parsed again, gives that same
\* primary key and an empty note
C30_PrimaryKeyStable ==
    refPc = "parsed" =>
       parseReference(refOut.main) = [main |-> refOut.main, additional |-> ""]

C30_Witness ==
    /\ refPc = "parsed"
    /\ startsWith(refInput, "TOPPSMM")
    /\ refOut.main = "MM7"
    /\ refOut.additional # ""
    /\ parseReference(refOut.main) = [main |-> "MM7", additional |-> ""]

====
